---- MODULE Spec2Model ----
(***************************************************************************)
(* Model of the dawg-audio-dsp mixer core (lib.rs): the sample-accurate    *)
(* Transport, the shared control block (SAB) protocol of sync_state, the   *)
(* ChannelStrip and the UnifiedMixerProcessor.                                *)
(*                                                                         *)
(* Number representation.  f32 samples are integers in units of 0.0001     *)
(* (SampleUnit): the has_signal test |x| > 0.0001 is |x| > 1 and the       *)
(* compressor's silence test level < 0.001 is level < 10.  Tick values     *)
(* (seek target, loop bounds) are fixed-point numbers in units of          *)
(* 1/TickScale tick, a power of two, so each is an exact f32.  The tempi   *)
(* used keep samples_per_beat and samples_per_tick whole numbers, so the   *)
(* f32 divisions of recalculate_timing are exact.  F32Round is IEEE-754    *)
(* binary32 rounding (24-bit significand, ties to even).                   *)
(***************************************************************************)
EXTENDS Integers, Sequences, FiniteSets, TLC

VARIABLES
    transport,      \* UnifiedMixerProcessor.transport : Transport
    tstate,         \* history: "Stopped", "Playing" or "Paused", by the last of
                    \* Transport::stop / play / pause that was called
    attached,       \* shared_state_ptr is non-null
    sab,            \* the shared control block, by index (Int32 / Float32 views)
    channels,       \* UnifiedMixerProcessor.channels : Vec<ChannelStrip>
    any_solo_active,\* UnifiedMixerProcessor.any_solo_active
    in_l, in_r,     \* de-interleave scratch buffers of the mixer (first samples)
    scratch_len,    \* length of the mixer's four scratch buffers
    out_l, out_r,   \* the caller's output block, as left by the last process_mix
    levels,         \* the caller's levels buffer, as left by get_channel_levels
    ret,            \* what the last API call returned: "ok", "err" or "unit"
    pc,             \* "idle", or "synced" inside process_mix after sync_state
    blk,            \* the arguments of the process_mix call in progress
    nblocks,        \* number of process_mix calls so far (bounded by MaxBlocks)
    last,           \* history: the last audio-thread operation and its pre-state
    LAST_LOOP_STATE,\* the static of sync_state: the loop triple it saw last
    peak_acc,       \* history: per channel, the largest output magnitude of the
                    \* blocks processed since the last get_channel_levels
    dl,             \* a DelayLine (filters.rs): [buffer, index]
    dl_hist,        \* history: the values written to dl since new or reset
    dl_ret,         \* what the last DelayLine call returned
    simd,           \* the last call of a 4-lane helper (simd_ops.rs) and its result
    reverb,         \* a ReverbProcessor (effects.rs) and the run it is put through
    comb,           \* a CombFilter (filters.rs), its calls so far and the last one
    audio,          \* the audio thread inside sync_state taken read by read: where
                    \* it stands and the values it has read
    ctl,            \* the control thread: where it stands in a seek request, and
                    \* history: what it has requested
    env,            \* an AdsrEnvelope (envelope.rs) and the last call made on it
    synth           \* a PolySynth (synth.rs) and the last call made on it

\* the DelayLine and its history
dlvars == <<dl, dl_hist, dl_ret>>

\* the stand-alone DSP units
\* the two threads at the shared block
racevars == <<audio, ctl>>

\* the envelope and the synthesiser
voicevars == <<env, synth>>

unitvars == <<comb, racevars, voicevars>>

fxvars == <<simd, reverb, unitvars>>

\* the mixer and its history without the shared block
mixvars_but_sab ==
    <<transport, tstate, attached, channels, any_solo_active, in_l, in_r,
      scratch_len, out_l, out_r, levels, ret, pc, blk, nblocks, last,
      LAST_LOOP_STATE, peak_acc>>

\* the mixer, its shared block and its history
mixvars == <<transport, tstate, attached, sab, channels, any_solo_active, in_l,
             in_r, scratch_len, out_l, out_r, levels, ret, pc, blk, nblocks,
             last, LAST_LOOP_STATE, peak_acc>>

vars == <<transport, tstate, attached, sab, channels, any_solo_active, in_l, in_r,
          scratch_len, out_l, out_r, levels, ret, pc, blk, nblocks, last,
          LAST_LOOP_STATE, peak_acc, dl, dl_hist, dl_ret, simd, reverb, comb, audio, ctl,
          env, synth>>

(***************************************************************************)
(* Bounds of the model                                                     *)
(***************************************************************************)
MaxBlocks == 3
MaxInserts == 2

(***************************************************************************)
(* Generic helpers                                                         *)
(***************************************************************************)
Abs(x) == IF x < 0 THEN -x ELSE x

Max(a, b) == IF a > b THEN a ELSE b

Min(a, b) == IF a < b THEN a ELSE b

RECURSIVE Pow2(_)
Pow2(n) == IF n <= 0 THEN 1 ELSE 2 * Pow2(n - 1)

RECURSIVE Log2Floor(_)
Log2Floor(n) == IF n <= 1 THEN 0 ELSE 1 + Log2Floor(n \div 2)

RECURSIVE Gcd(_, _)
Gcd(a, b) == IF b = 0 THEN a ELSE Gcd(b, a % b)

\* A rational in lowest terms (den > 0); den = 0 stands for the non-finite
\* result of a division by zero.
Ratio(n, d) ==
    IF d = 0 THEN [num |-> n, den |-> 0]
    ELSE LET g == Gcd(Abs(n), Abs(d))
             s == IF d < 0 THEN -1 ELSE 1
         IN  [num |-> s * (n \div g), den |-> s * (d \div g)]

F32Bits == 24

\* IEEE-754 binary32 rounding of the integer m (also used on fixed-point
\* mantissas, whose scale is a power of two): exact below 2^24, otherwise
\* rounded to a multiple of 2^(e-23), ties to the even significand.
F32Round(m) ==
    LET a == Abs(m)
        e == Log2Floor(a)
    IN  IF e < F32Bits THEN m
        ELSE LET step == Pow2(e - (F32Bits - 1))
                 q    == a \div step
                 r    == a % step
                 up   == (2 * r > step) \/ (2 * r = step /\ q % 2 = 1)
                 v    == (IF up THEN q + 1 ELSE q) * step
             IN  IF m < 0 THEN -v ELSE v

\* 2^24, the first integer binary32 cannot step by one from, and 2^23
F32Limit == Pow2(F32Bits)

F32Half == Pow2(F32Bits - 1)

\* binary long division of r/d (r < d or q the integer part): doubles the
\* significand q until it has F32Bits bits, k counting the fraction bits
RECURSIVE DivBits(_, _, _, _)
DivBits(q, r, d, k) ==
    IF q >= F32Half THEN [q |-> q, r |-> r, k |-> k]
    ELSE IF 2 * r >= d THEN DivBits(2 * q + 1, 2 * r - d, d, k + 1)
         ELSE DivBits(2 * q, 2 * r, d, k + 1)

\* a binary floating-point value mant * 2^exp with mant odd (or zero)
RECURSIVE Normal(_, _)
Normal(mant, exp) ==
    IF mant = 0 THEN [mant |-> 0, exp |-> 0]
    ELSE IF mant % 2 = 0 THEN Normal(mant \div 2, exp + 1)
         ELSE [mant |-> mant, exp |-> exp]

\* the quotient n / d (n >= 0, d > 0) rounded to binary32, ties to even.
\* The code divides in f64 and narrows to f32; for d < 2^28 the f64
\* quotient is never close enough to a binary32 tie to round differently.
\* the divided significand b rounded to nearest, ties to even
RoundedBits(b, d) ==
    Normal(IF (2 * b.r > d) \/ (2 * b.r = d /\ b.q % 2 = 1) THEN b.q + 1 ELSE b.q,
           -b.k)

F32Quot(n, d) ==
    IF n = 0 THEN Normal(0, 0)
    ELSE IF n \div d >= F32Limit THEN Normal(F32Round(n \div d), 0)
    ELSE CHOOSE v \in {RoundedBits(b, d) : b \in {DivBits(n \div d, n % d, d, 0)}} : TRUE

\* tick values are counted in units of 1/TickScale tick
TickScale == 2 * 32

\* `x as u64` of a float given as a fixed-point mantissa: truncation toward
\* zero, negative values saturate to 0.
AsU64(fx) == IF fx <= 0 THEN 0 ELSE fx \div TickScale

(***************************************************************************)
(* Transport (lib.rs 35-160)                                               *)
(***************************************************************************)
SampleRate == 48000

DefaultBpm == 120

\* bpm (f32) is held in units of 1/BpmScale, fine enough to tell a tempo
\* inside sync_state's 0.001 dead band from the one in force
BpmScale == 2 * 1000

Ppq == 96

recalculate_timing(t) ==
    LET spm == t.sample_rate * 60
        spb == (spm \div t.bpm) * BpmScale + ((spm % t.bpm) * BpmScale) \div t.bpm
    IN  [t EXCEPT !.samples_per_beat = spb,
                  !.samples_per_tick = spb \div t.ppq]

Transport_new(sample_rate) ==
    recalculate_timing(
        [is_playing |-> FALSE, sample_rate |-> sample_rate, bpm |-> DefaultBpm * BpmScale,
         current_sample |-> 0, ppq |-> Ppq,
         samples_per_beat |-> 0, samples_per_tick |-> 0,
         loop_enabled |-> FALSE, loop_start_tick |-> 0, loop_end_tick |-> 0])

set_bpm(t, bpm) ==
    IF bpm > 0 THEN recalculate_timing([t EXCEPT !.bpm = bpm]) ELSE t

set_sample_rate(t, sample_rate) ==
    IF sample_rate > 0 THEN recalculate_timing([t EXCEPT !.sample_rate = sample_rate])
    ELSE t

\* a play that starts over from sample 0
play_FromStart(t) == [t EXCEPT !.is_playing = TRUE, !.current_sample = 0]

play(t) == [t EXCEPT !.is_playing = TRUE]

stop(t) == [t EXCEPT !.is_playing = FALSE, !.current_sample = 0]

pause(t) == [t EXCEPT !.is_playing = FALSE]

\* (ticks * samples_per_tick) as u64: an f32 product, then the cast
TicksToSamples(t, ticks) == AsU64(F32Round(ticks * t.samples_per_tick))

LoopEndSample(t) == TicksToSamples(t, t.loop_end_tick)

LoopStartSample(t) == TicksToSamples(t, t.loop_start_tick)

\* advance that wraps only past the loop end, not on it
advance_WrapPast(t, samples) ==
    IF ~t.is_playing THEN t
    ELSE
      LET pos == t.current_sample + samples
          loop_end_sample == LoopEndSample(t)
          loop_start_sample == LoopStartSample(t)
          loop_len == loop_end_sample - loop_start_sample
      IN  IF /\ t.loop_enabled
             /\ t.loop_end_tick > t.loop_start_tick
             /\ pos > loop_end_sample
             /\ loop_len > 0
          THEN [t EXCEPT !.current_sample =
                    loop_start_sample + ((pos - loop_end_sample) % loop_len)]
          ELSE [t EXCEPT !.current_sample = pos]

\* advance that takes an empty or reversed loop for a loop, and goes to its
\* start
advance_WrapEmpty(t, samples) ==
    IF ~t.is_playing THEN t
    ELSE
      LET pos == t.current_sample + samples
          loop_end_sample == LoopEndSample(t)
          loop_start_sample == LoopStartSample(t)
          loop_len == loop_end_sample - loop_start_sample
      IN  IF t.loop_enabled /\ pos >= loop_end_sample
          THEN [t EXCEPT !.current_sample =
                    IF loop_len > 0
                    THEN loop_start_sample + ((pos - loop_end_sample) % loop_len)
                    ELSE loop_start_sample]
          ELSE [t EXCEPT !.current_sample = pos]

\* advance that does not test is_playing
advance_Always(t, samples) ==
    [t EXCEPT !.current_sample = @ + samples]

advance(t, samples) ==
    IF ~t.is_playing THEN t
    ELSE
      LET pos == t.current_sample + samples
          loop_end_sample == LoopEndSample(t)
          loop_start_sample == LoopStartSample(t)
          loop_len == loop_end_sample - loop_start_sample
      IN  IF /\ t.loop_enabled
             /\ t.loop_end_tick > t.loop_start_tick
             /\ pos >= loop_end_sample
             /\ loop_len > 0
          THEN [t EXCEPT !.current_sample =
                    loop_start_sample + ((pos - loop_end_sample) % loop_len)]
          ELSE [t EXCEPT !.current_sample = pos]

\* advance(samples) takes the wrap branch, which logs a formatted line
LoopWraps(t, samples) ==
    /\ t.is_playing
    /\ t.loop_enabled
    /\ t.loop_end_tick > t.loop_start_tick
    /\ t.current_sample + samples >= LoopEndSample(t)
    /\ LoopEndSample(t) - LoopStartSample(t) > 0

\* advance(samples) takes loop_end_sample - loop_start_sample (u64) with the
\* end below the start
LoopLenUnderflows(t, samples) ==
    /\ t.is_playing
    /\ t.loop_enabled
    /\ t.loop_end_tick > t.loop_start_tick
    /\ t.current_sample + samples >= LoopEndSample(t)
    /\ LoopEndSample(t) < LoopStartSample(t)

set_loop(t, enabled, start_tick, end_tick) ==
    [t EXCEPT !.loop_enabled = enabled,
              !.loop_start_tick = start_tick,
              !.loop_end_tick = end_tick]

set_position_samples(t, samples) == [t EXCEPT !.current_sample = samples]

\* current_sample as f64 / samples_per_tick as f64
get_current_tick(t) == Ratio(t.current_sample, t.samples_per_tick)

(***************************************************************************)
(* Shared control block layout (lib.rs 171-192)                            *)
(***************************************************************************)
idx_play_state == 0

idx_msg_counter == 1

idx_seek_trigger == 2

idx_bpm == 16

idx_position_samples == 17

idx_position_ticks == 18

idx_sample_rate == 19

idx_seek_target == 20

idx_loop_enabled == 21

idx_loop_start == 22

idx_loop_end == 23

SabIndices ==
    {idx_play_state, idx_msg_counter, idx_seek_trigger, idx_bpm,
     idx_position_samples, idx_position_ticks, idx_sample_rate,
     idx_seek_target, idx_loop_enabled, idx_loop_start, idx_loop_end}

\* a freshly allocated (zeroed) shared buffer
SabZero ==
    [i \in SabIndices |->
        IF i = idx_position_ticks THEN Normal(0, 0) ELSE 0]

(***************************************************************************)
(* Buffers: a block of n samples is a function on 0..n-1                   *)
(***************************************************************************)
Zeros(n) == [s \in 0..(n - 1) |-> 0]

\* pre-allocated length of the mixer's scratch buffers (lib.rs 819-822)
ScratchInit == 128

\* The model keeps the first ScratchWindow samples of the de-interleave
\* scratch buffers; process_mix is driven with blocks no longer than that.
ScratchWindow == 3

\* l.abs() > 0.0001, in units of 0.0001
SignalThreshold == 1

\* input_level < 0.001, in units of 0.0001
CompSilenceLevel == 10

\* fixed-point unity of the compressor's smoothed gain
GainScale == 100 * 100

(***************************************************************************)
(* BiquadFilter and ThreeBandEQ (lib.rs 198-332, 515-566)                  *)
(***************************************************************************)
BiquadFilter_new ==
    [b0 |-> 1, b1 |-> 0, b2 |-> 0, a1 |-> 0, a2 |-> 0,
     x1 |-> 0, x2 |-> 0, y1 |-> 0, y2 |-> 0]

\* returns the filter after the sample and the output sample
Biquad_process(f, input) ==
    LET output == f.b0 * input + f.b1 * f.x1 + f.b2 * f.x2
                  - f.a1 * f.y1 - f.a2 * f.y2
    IN  [f |-> [f EXCEPT !.x2 = f.x1, !.x1 = input, !.y2 = f.y1, !.y1 = output],
         out |-> output]

\* a set_coefficients that also clears the history
set_coefficients_Clearing(f, c) ==
    [f EXCEPT !.b0 = c[1], !.b1 = c[2], !.b2 = c[3], !.a1 = c[4], !.a2 = c[5],
              !.x1 = 0, !.x2 = 0, !.y1 = 0, !.y2 = 0]

set_coefficients(f, c) ==
    [f EXCEPT !.b0 = c[1], !.b1 = c[2], !.b2 = c[3], !.a1 = c[4], !.a2 = c[5]]

Biquad_reset(f) == [f EXCEPT !.x1 = 0, !.x2 = 0, !.y1 = 0, !.y2 = 0]

\* The cookbook formulas (sin, cos, powf) are not expressible; they are
\* modelled by their structure on integer coefficients: at gain 0 dB the
\* numerator equals the denominator (b0 = 1, b1 = a1, b2 = a2), at any
\* other gain it does not.
calculate_lowshelf(frequency, gain, sample_rate) ==
    IF gain = 0 THEN <<1, -1, 0, -1, 0>> ELSE <<2, -1, 0, -1, 0>>

calculate_highshelf(frequency, gain, sample_rate) ==
    IF gain = 0 THEN <<1, -1, 0, -1, 0>> ELSE <<2, -2, 0, -1, 0>>

calculate_peaking(frequency, gain, sample_rate) ==
    IF gain = 0 THEN <<1, -1, 0, -1, 0>> ELSE <<2, -1, 0, -1, 0>>

ThreeBandEQ_new(sample_rate) ==
    [low |-> BiquadFilter_new, mid |-> BiquadFilter_new,
     high |-> BiquadFilter_new, sample_rate |-> sample_rate]

update_coefficients(eq, low_gain, mid_gain, high_gain, low_freq, high_freq) ==
    [eq EXCEPT
       !.low = set_coefficients(@, calculate_lowshelf(low_freq, low_gain, eq.sample_rate)),
       !.mid = set_coefficients(@, calculate_peaking(1000, mid_gain, eq.sample_rate)),
       !.high = set_coefficients(@, calculate_highshelf(high_freq, high_gain, eq.sample_rate))]

EQ_process(eq, input) ==
    LET r1 == Biquad_process(eq.low, input)
        r2 == Biquad_process(eq.mid, r1.out)
        r3 == Biquad_process(eq.high, r2.out)
    IN  [eq |-> [eq EXCEPT !.low = r1.f, !.mid = r2.f, !.high = r3.f],
         out |-> r3.out]

EQ_reset(eq) ==
    [eq EXCEPT !.low = Biquad_reset(@), !.mid = Biquad_reset(@),
               !.high = Biquad_reset(@)]

\* the five coefficients of each band
EQ_coefficients(eq) ==
    [band \in {"low", "mid", "high"} |->
        <<eq[band].b0, eq[band].b1, eq[band].b2, eq[band].a1, eq[band].a2>>]

EQ_history(eq) ==
    <<eq.low.x1, eq.low.x2, eq.low.y1, eq.low.y2,
      eq.mid.x1, eq.mid.x2, eq.mid.y1, eq.mid.y2,
      eq.high.x1, eq.high.x2, eq.high.y1, eq.high.y2>>

(***************************************************************************)
(* Insert effects (effects.rs 10-72): SimpleDelay, effect type 0           *)
(***************************************************************************)
\* The two delay lines of a SimpleDelay are summarised by the samples that
\* differ from 0 in them: none after construction.
SimpleDelay_new(sample_rate) ==
    [effect_type |-> 0, delay_samples |-> sample_rate \div 2,
     written_l |-> <<>>, written_r |-> <<>>]

(***************************************************************************)
(* DelayLine (filters.rs 77-140)                                           *)
(***************************************************************************)
\* the smallest buffer DelayLine::new makes
MinDelaySize == 16

\* a buffer of n samples is a function on 0..n-1, like the blocks
DelayLine_new(size) ==
    LET actual_size == IF size > MinDelaySize THEN size ELSE MinDelaySize
    IN  [buffer |-> [i \in 0..(actual_size - 1) |-> 0], index |-> 0]

\* buffer.len()
BufLen(d) == Cardinality(DOMAIN d.buffer)

\* the slot at index 0 whatever the cursor
DelayLine_read_First(d) == d.buffer[0]

DelayLine_read(d) == d.buffer[d.index]

\* usize is 32 bits wide on wasm32 and 64 on a native build
UsizeWidths == {32, 64}

\* 2^bits modulo len
RECURSIVE Pow2Mod(_, _)
Pow2Mod(bits, len) ==
    IF bits = 0 THEN 1 % len ELSE (2 * Pow2Mod(bits - 1, len)) % len

\* the outcomes of read_at: `index + len - offset` is unsigned, so an offset
\* above index + len overflows; the overflow panics in a build with overflow
\* checks and wraps modulo 2^width in one without
read_at(d, offset) ==
    LET len == BufLen(d)
        sum == d.index + len
    IN  IF offset <= sum
        THEN {[kind |-> "value", value |-> d.buffer[(sum - offset) % len]]}
        ELSE {[kind |-> "panic", value |-> 0]}
             \cup {[kind |-> "value",
                    value |-> d.buffer[(Pow2Mod(w, len)
                                        + ((sum - offset) % len)) % len]]
                   : w \in UsizeWidths}

\* delays are given in halves of a sample
DelayGrid == 2

\* `as usize` of a float: saturating at 0
AsUsize(x) == IF x < 0 THEN 0 ELSE x

read_interpolated(d, delay_samples) ==
    LET delay_int == AsUsize(delay_samples \div DelayGrid)
        delay_frac == delay_samples - delay_int * DelayGrid
        buf_len == BufLen(d)
        offset == delay_int % buf_len
        idx1 == IF d.index >= offset
                THEN d.index - offset
                ELSE d.index + buf_len - offset
        idx2 == IF idx1 = 0 THEN buf_len - 1 ELSE idx1 - 1
        s1 == d.buffer[idx1]
        s2 == d.buffer[idx2]
    IN  s1 + ((s2 - s1) * delay_frac) \div DelayGrid

\* a write whose cursor runs off the end
DelayLine_write_NoWrap(d, value) ==
    [d EXCEPT !.buffer[d.index] = value, !.index = d.index + 1]

DelayLine_write(d, value) ==
    [d EXCEPT !.buffer[d.index] = value,
              !.index = (d.index + 1) % BufLen(d)]

DelayLine_reset(d) ==
    [d EXCEPT !.buffer = [i \in DOMAIN d.buffer |-> 0], !.index = 0]

(***************************************************************************)
(* CombFilter, AllpassFilter (filters.rs 142-232) and ReverbProcessor      *)
(* (effects.rs 80-262).  Samples are whole numbers of 1/UnitSample, gains  *)
(* and coefficients whole numbers of 1/CoefScale; every product is taken   *)
(* down to the sample grid.                                                *)
(***************************************************************************)
UnitSample == 100 * 100

CoefScale == 1000

\* value * coefficient
Scaled(value, coef) == (value * coef) \div CoefScale

\* The largest finite sample of the model; past it an f32 result is an
\* infinity.  The three values that are not finite lie outside the range.
MaxFinite == 100 * UnitSample

Inf == MaxFinite + 1

NegInf == -Inf

NaN == MaxFinite + 2

\* f32::is_finite
is_finite(x) == -MaxFinite <= x /\ x <= MaxFinite

\* an exact result taken to f32: overflow gives an infinity
Overflowed(x) ==
    IF x > MaxFinite THEN Inf ELSE IF x < -MaxFinite THEN NegInf ELSE x

\* f32 negation, addition, subtraction
FNeg(a) == IF a = NaN THEN NaN ELSE -a

FAdd(a, b) ==
    IF a = NaN \/ b = NaN THEN NaN
    ELSE IF is_finite(a) /\ is_finite(b) THEN Overflowed(a + b)
    ELSE IF is_finite(a) THEN b
    ELSE IF is_finite(b) \/ a = b THEN a
    ELSE NaN

FSub(a, b) == FAdd(a, FNeg(b))

\* f32 product of a sample and a coefficient (in 1/CoefScale, or not finite)
FMul(value, coef) ==
    IF value = NaN \/ coef = NaN THEN NaN
    ELSE IF is_finite(value) /\ is_finite(coef) THEN Overflowed(Scaled(value, coef))
    ELSE IF value = 0 \/ coef = 0 THEN NaN
    ELSE IF (value > 0) = (coef > 0) THEN Inf
    ELSE NegInf

CombFilter_new(size) ==
    [delay |-> DelayLine_new(size), filter_state |-> 0, filter_state2 |-> 0,
     base_size |-> size]

\* a comb that writes the feedback sum as it comes
CombDamped_Unchecked(c, input, feedback, damp1, damp2, output) ==
    LET filter_state == FAdd(output, FMul(FSub(c.filter_state, output), damp1))
        filter_state2 ==
            FAdd(filter_state, FMul(FSub(c.filter_state2, filter_state), damp2))
    IN  [comb |-> [c EXCEPT !.delay =
                                DelayLine_write(@, FAdd(input, FMul(filter_state2, feedback))),
                            !.filter_state = filter_state,
                            !.filter_state2 = filter_state2],
         new_input |-> FAdd(input, FMul(filter_state2, feedback)),
         out |-> output]

\* process and process_modulated from the damping on, `output` being what
\* was read from the delay line: the comb after the call, the feedback sum
\* it formed and the sample it returns
CombDamped(c, input, feedback, damp1, damp2, output) ==
    LET filter_state == FAdd(output, FMul(FSub(c.filter_state, output), damp1))
        filter_state2 ==
            FAdd(filter_state, FMul(FSub(c.filter_state2, filter_state), damp2))
        filtered == filter_state2
        new_input == FAdd(input, FMul(filtered, feedback))
        safe_input == IF is_finite(new_input) THEN new_input ELSE 0
    IN  [comb |-> [c EXCEPT !.delay = DelayLine_write(@, safe_input),
                            !.filter_state = filter_state,
                            !.filter_state2 = filter_state2],
         new_input |-> new_input,
         out |-> output]

process(c, input, feedback, damp1, damp2) ==
    CombDamped(c, input, feedback, damp1, damp2, DelayLine_read(c.delay))

process_modulated(c, input, feedback, damp1, damp2, mod_delay) ==
    CombDamped(c, input, feedback, damp1, damp2,
               read_interpolated(c.delay, mod_delay))

\* read_interpolated with a delay that is not finite: `floor() as usize`
\* gives 0 for NaN and -inf and usize::MAX for +inf, and delay_frac is the
\* delay itself (NaN - 0, -inf - 0, inf - usize::MAX as f32)
read_interpolated_NonFinite(d, delay_samples, usize_bits) ==
    LET buf_len == BufLen(d)
        offset == IF delay_samples = Inf
                  THEN (Pow2Mod(usize_bits, buf_len) + buf_len - 1) % buf_len
                  ELSE 0
        idx1 == IF d.index >= offset
                THEN d.index - offset
                ELSE d.index + buf_len - offset
        idx2 == IF idx1 = 0 THEN buf_len - 1 ELSE idx1 - 1
        s1 == d.buffer[idx1]
        s2 == d.buffer[idx2]
        diff == FSub(s2, s1)
    IN  FAdd(s1, IF delay_samples = NaN \/ diff = NaN THEN NaN
                 ELSE IF diff = 0 THEN NaN
                 ELSE IF (diff > 0) = (delay_samples > 0) THEN Inf
                 ELSE NegInf)

\* process_modulated for any f32 mod_delay
process_modulated_AnyDelay(c, input, feedback, damp1, damp2, mod_delay, usize_bits) ==
    CombDamped(c, input, feedback, damp1, damp2,
               IF is_finite(mod_delay)
               THEN Overflowed(read_interpolated(c.delay, mod_delay))
               ELSE read_interpolated_NonFinite(c.delay, mod_delay, usize_bits))

AllpassFilter_new(size) == [delay |-> DelayLine_new(size)]

AllpassFeedback == 500

\* an allpass that feeds back twice what it delays
AllpassFilter_process_Double(a, input) ==
    LET delayed == DelayLine_read(a.delay)
    IN  [allpass |-> [a EXCEPT !.delay = DelayLine_write(@, input + 2 * delayed)],
         out |-> -input + delayed]

\* the allpass after the call and the sample it returns
AllpassFilter_process(a, input) ==
    LET delayed == DelayLine_read(a.delay)
        output == -input + delayed
        feedback == input + Scaled(delayed, AllpassFeedback)
    IN  [allpass |-> [a EXCEPT !.delay = DelayLine_write(@, feedback)],
         out |-> output]

ReferenceRate == 44100

comb_tunings == <<1557, 1617, 1491, 1422>>

allpass_tunings == <<225, 341, 441, 556>>

stereo_spread == 23

CombModRoom == 100

\* early reflection times in ms
early_times == <<5, 11, 17, 23, 31, 37, 43, 47, 53, 59, 67, 73>>

\* (-ms / 80.0).exp() of the early times, in 1/CoefScale
early_gain_table == <<939, 872, 809, 750, 679, 630, 584, 556, 516, 478, 433, 402>>

\* (t as f32 * scale) as usize, scale = sample_rate / 44100.0
ScaledTuning(t, sample_rate) == (t * sample_rate) \div ReferenceRate

ReverbProcessor_new(sample_rate) ==
    [sample_rate |-> sample_rate,
     combs_l |-> [j \in 1..4 |->
        CombFilter_new(ScaledTuning(comb_tunings[j], sample_rate) + CombModRoom)],
     combs_r |-> [j \in 1..4 |->
        CombFilter_new(ScaledTuning(comb_tunings[j] + stereo_spread, sample_rate)
                       + CombModRoom)],
     allpass_l |-> [j \in 1..4 |->
        AllpassFilter_new(ScaledTuning(allpass_tunings[j], sample_rate))],
     allpass_r |-> [j \in 1..4 |->
        AllpassFilter_new(ScaledTuning(allpass_tunings[j], sample_rate))],
     pre_delay |-> DelayLine_new(sample_rate \div 2),
     early_delays |-> [j \in 1..Len(early_times) |->
        (early_times[j] * sample_rate) \div 1000],
     early_gains |-> early_gain_table,
     early_buffer |-> DelayLine_new(sample_rate \div 10),
     lfo_phase |-> 0]

\* The parameters of process, in the units of the model: size and mod_depth
\* whole, decay in seconds, damping in hundredths, pre_delay_time in ms,
\* wet, early_late_mix and width in 1/CoefScale, mod_rate in eighths of a
\* turn of the LFO per sample (lfo_inc = mod_rate * pi / 4).
FeedbackCap == 999

\* 10^(-3 * avg_comb_delay / (decay * sample_rate)) in 1/CoefScale, to the
\* nearest; avg_comb_delay / sample_rate is 1400 / 44100 at every rate
DecayGain(decay) ==
    CASE decay = 1 -> 803
      [] decay = 10 -> 978
      [] decay = 1000 -> 1000

ReverbFeedback(decay) == Min(DecayGain(decay), FeedbackCap)

\* damp1 = exp(-omega) and damp2 = exp(-1.5 omega) in 1/CoefScale at 441 Hz,
\* omega = 2 pi (2000 + (1 - damping) 18000) / sample_rate: damping 1.11
\* puts the damping corner at 20 Hz, 0.045 of the rate as 2000 Hz is of 44100
DampCoefs(damping) ==
    CASE damping = 0 -> [damp1 |-> 0, damp2 |-> 0]
      [] damping = 111 -> [damp1 |-> 752, damp2 |-> 652]

\* sin of k eighths of a turn, in 1/CoefScale
Sin8(k) ==
    CASE k % 8 = 0 -> 0
      [] k % 8 = 1 -> 707
      [] k % 8 = 2 -> 1000
      [] k % 8 = 3 -> 707
      [] k % 8 = 4 -> 0
      [] k % 8 = 5 -> -707
      [] k % 8 = 6 -> -1000
      [] k % 8 = 7 -> -707

\* the value of a read_at that has one outcome
OnlyRead(outcomes) == (CHOOSE o \in outcomes : TRUE).value

RECURSIVE EarlySum(_, _, _, _)
EarlySum(buf, delays, gains, j) ==
    IF j = 0 THEN 0
    ELSE EarlySum(buf, delays, gains, j - 1)
         + Scaled(OnlyRead(read_at(buf, delays[j])), gains[j])

\* the four allpass stages in series: the stages after the call and the
\* sample the last one returns
AllpassChain(stages, input) ==
    LET a1 == AllpassFilter_process(stages[1], input)
        a2 == AllpassFilter_process(stages[2], a1.out)
        a3 == AllpassFilter_process(stages[3], a2.out)
        a4 == AllpassFilter_process(stages[4], a3.out)
    IN  [stages |-> <<a1.allpass, a2.allpass, a3.allpass, a4.allpass>>,
         out |-> a4.out]

\* the LFO phase after one sample, in eighths of a turn
LfoStep(lfo_phase, mod_rate) ==
    IF lfo_phase + mod_rate > 8
    THEN lfo_phase + mod_rate - 8
    ELSE lfo_phase + mod_rate

\* the delay of a comb in 1/DelayGrid sample: base_size * (0.5 + size * 1.5)
\* of the comb, moved by lfo * mod_depth * 0.05 * that of the left comb
CombDelay(base_size, base_size_l, p, lfo) ==
    base_size * (1 + 3 * p.size)
    + Scaled((p.mod_depth * base_size_l * (1 + 3 * p.size)) \div 20, lfo)

\* the four combs of one side run on the pre-delayed sample
CombBank(combs, combs_l, delayed, p, lfo_phase) ==
    [j \in 1..4 |->
        process_modulated(combs[j], delayed, ReverbFeedback(p.decay),
                          DampCoefs(p.damping).damp1, DampCoefs(p.damping).damp2,
                          CombDelay(combs[j].base_size, combs_l[j].base_size, p,
                                    Sin8(lfo_phase + (j - 1))))]

\* comb_sum * 0.25
CombSum(bank) == (bank[1].out + bank[2].out + bank[3].out + bank[4].out) \div 4

\* early_sum * (1.0 - early_late_mix) + late * early_late_mix
MixEarlyLate(early_sum, late, p) ==
    Scaled(early_sum, CoefScale - p.early_late_mix)
    + Scaled(late, p.early_late_mix)

\* stereo width and output mix: the reverb after the sample and the two
\* output samples
OutputMix(after, sample_l, sample_r, p, mixed_l, mixed_r) ==
    LET mid == (mixed_l + mixed_r) \div 2
        side == (mixed_l - mixed_r) \div 2
        reverb_l == mid + Scaled(side, p.width)
        reverb_r == mid - Scaled(side, p.width)
    IN  [reverb |-> after,
         out_l |-> Scaled(sample_l, CoefScale - p.wet)
                   + Scaled(Scaled(reverb_l, p.wet), 500),
         out_r |-> Scaled(sample_r, CoefScale - p.wet)
                   + Scaled(Scaled(reverb_r, p.wet), 500)]

\* early sum, allpass diffusion and early/late mix, given the delay lines
\* and comb banks after the sample
Diffused(r, sample_l, sample_r, p, lfo_phase, pre_delay, early_buffer, cl, cr, al, ar) ==
    OutputMix([r EXCEPT !.lfo_phase = lfo_phase,
                        !.pre_delay = pre_delay,
                        !.early_buffer = early_buffer,
                        !.combs_l = [j \in 1..4 |-> cl[j].comb],
                        !.combs_r = [j \in 1..4 |-> cr[j].comb],
                        !.allpass_l = al.stages,
                        !.allpass_r = ar.stages],
              sample_l, sample_r, p,
              MixEarlyLate(EarlySum(early_buffer, r.early_delays, r.early_gains,
                                    Len(r.early_delays)), al.out, p),
              MixEarlyLate(EarlySum(early_buffer, r.early_delays, r.early_gains,
                                    Len(r.early_delays)), ar.out, p))

\* the allpass chains run on the comb sums
Combed(r, sample_l, sample_r, p, lfo_phase, pre_delay, early_buffer, cl, cr) ==
    Diffused(r, sample_l, sample_r, p, lfo_phase, pre_delay, early_buffer, cl, cr,
             AllpassChain(r.allpass_l, CombSum(cl)),
             AllpassChain(r.allpass_r, CombSum(cr)))

\* the early buffer written and the comb banks run on the pre-delayed sample
PreDelayed(r, sample_l, sample_r, p, lfo_phase, pre_delay, delayed) ==
    Combed(r, sample_l, sample_r, p, lfo_phase, pre_delay,
           DelayLine_write(r.early_buffer, delayed),
           CombBank(r.combs_l, r.combs_l, delayed, p, lfo_phase),
           CombBank(r.combs_r, r.combs_l, delayed, p, lfo_phase))

\* the pre-delay read after its write
PreDelayWritten(r, sample_l, sample_r, p, lfo_phase, pre_delay) ==
    PreDelayed(r, sample_l, sample_r, p, lfo_phase, pre_delay,
               OnlyRead(read_at(pre_delay,
                                (p.pre_delay_time * r.sample_rate) \div 1000)))

\* one turn of the sample loop of process: the reverb after it and the two
\* output samples
process_sample(r, sample_l, sample_r, p) ==
    PreDelayWritten(r, sample_l, sample_r, p, LfoStep(r.lfo_phase, p.mod_rate),
                    DelayLine_write(r.pre_delay, (sample_l + sample_r) \div 2))

\* the slices put out so far with one more sample
SliceWith(before, s) ==
    [reverb |-> s.reverb,
     output_l |-> Append(before.output_l, s.out_l),
     output_r |-> Append(before.output_r, s.out_r)]

SliceNext(before, sample_l, sample_r, p) ==
    SliceWith(before, process_sample(before.reverb, sample_l, sample_r, p))

\* process on slices of one length: the reverb after the call and the two
\* output slices
RECURSIVE ReverbProcessor_process(_, _, _, _, _)
ReverbProcessor_process(r, input_l, input_r, p, len) ==
    IF len = 0 THEN [reverb |-> r, output_l |-> <<>>, output_r |-> <<>>]
    ELSE SliceNext(ReverbProcessor_process(r, input_l, input_r, p, len - 1),
                   input_l[len], input_r[len], p)

(***************************************************************************)
(* 4-lane helpers (simd_ops.rs 9-67), on floats with whole values          *)
(***************************************************************************)
\* binary32 product, sum and difference
F32Mul(x, y) == F32Round(x * y)
F32Add(x, y) == F32Round(x + y)
F32Sub(x, y) == F32Round(x - y)

\* the lanes of a v128 taken as f32x4
Lanes == 0..3

\* a [f32; 4] is a sequence of four; a v128 is a function on the lanes
v128_load(arr) == [i \in Lanes |-> arr[i + 1]]
v128_store(v) == <<v[0], v[1], v[2], v[3]>>
f32x4_splat(x) == [i \in Lanes |-> x]

\* a product that takes lane 0 of its first operand for every lane
f32x4_mul_Lane0(a, b) == [i \in Lanes |-> F32Mul(a[0], b[i])]

f32x4_mul(a, b) == [i \in Lanes |-> F32Mul(a[i], b[i])]
f32x4_add(a, b) == [i \in Lanes |-> F32Add(a[i], b[i])]

\* simd_gain_4 of the build with the simd feature on wasm32, and its scalar
\* fallback of every other build
simd_gain_4(input, gain, with_simd) ==
    IF with_simd
    THEN LET input_v == v128_load(input)
             gain_v == f32x4_splat(gain)
             result == f32x4_mul(input_v, gain_v)
         IN  v128_store(result)
    ELSE <<F32Mul(input[1], gain), F32Mul(input[2], gain),
           F32Mul(input[3], gain), F32Mul(input[4], gain)>>

simd_mix_4(dry, wet_signal, wet, with_simd) ==
    IF with_simd
    THEN LET dry_v == v128_load(dry)
             wet_v == v128_load(wet_signal)
             wet_amt == f32x4_splat(wet)
             dry_amt == f32x4_splat(F32Sub(1, wet))
             dry_scaled == f32x4_mul(dry_v, dry_amt)
             wet_scaled == f32x4_mul(wet_v, wet_amt)
             result == f32x4_add(dry_scaled, wet_scaled)
         IN  v128_store(result)
    ELSE LET dry_amt == F32Sub(1, wet)
         IN  <<F32Add(F32Mul(dry[1], dry_amt), F32Mul(wet_signal[1], wet)),
               F32Add(F32Mul(dry[2], dry_amt), F32Mul(wet_signal[2], wet)),
               F32Add(F32Mul(dry[3], dry_amt), F32Mul(wet_signal[3], wet)),
               F32Add(F32Mul(dry[4], dry_amt), F32Mul(wet_signal[4], wet))>>

(***************************************************************************)
(* ChannelStrip (lib.rs 572-762)                                           *)
(***************************************************************************)
ChannelStrip_new(sample_rate) ==
    [eq_l |-> ThreeBandEQ_new(sample_rate), eq_r |-> ThreeBandEQ_new(sample_rate),
     comp_gain |-> GainScale, comp_threshold_linear |-> GainScale,
     gain |-> 1, pan |-> 0, mute |-> FALSE, solo |-> FALSE,
     eq_active |-> FALSE, comp_active |-> FALSE,
     comp_threshold |-> -12, comp_ratio |-> 4,
     inserts |-> <<>>, peak_l |-> 0, peak_r |-> 0]

\* truncating division (toward zero), as a float product cut to the grid
TDiv(a, b) == IF a >= 0 THEN a \div b ELSE -((-a) \div b)

\* 10^(threshold/20) in sample units, for the thresholds of the model
DbToLinear(threshold) ==
    CASE threshold = -12 -> 2512
      [] threshold = -6 -> 5012
      [] OTHER -> 10000

\* (1 - comp_gain) * 0.003, in thousandths
RelaxPerMille == 3

\* 1 - exp(-1/(0.003 * 48000)) and 1 - exp(-1/(0.1 * 48000)), in 1/10000
SmoothAttack == 69

SmoothRelease == 2

\* returns the strip with its updated comp_gain / comp_threshold_linear
process_compression(ch, left, right, threshold, ratio, sample_rate) ==
    LET input_level == Max(Abs(left), Abs(right))
    IN  IF input_level < CompSilenceLevel \/ threshold >= 0
        THEN [ch EXCEPT !.comp_gain =
                  @ + TDiv((GainScale - @) * RelaxPerMille, 1000)]
        ELSE
          LET thr == DbToLinear(threshold)
              target_gain ==
                  IF input_level > thr
                  THEN (GainScale * thr * ratio) \div (thr * ratio + input_level - thr)
                  ELSE GainScale
              smoothing_factor ==
                  IF target_gain < ch.comp_gain THEN SmoothAttack ELSE SmoothRelease
          IN  [ch EXCEPT !.comp_threshold_linear = thr,
                         !.comp_gain =
                             @ + TDiv((target_gain - @) * smoothing_factor, GainScale)]

\* pan law of process_block for the pan positions -1, 0, 1:
\* cos/sin of (pan+1)*pi/4 times the linear attenuation of the other side
PanGains(pan) ==
    CASE pan = 0 -> [l |-> 1, r |-> 1]
      [] pan > 0 -> [l |-> 0, r |-> 1]
      [] OTHER   -> [l |-> 1, r |-> 0]

\* 1. EQ, one sample
StripEq(st, i) ==
    IF ~st.ch.eq_active THEN st
    ELSE LET rl == EQ_process(st.ch.eq_l, st.ol[i])
             rr == EQ_process(st.ch.eq_r, st.or[i])
         IN  [st EXCEPT !.ch.eq_l = rl.eq, !.ch.eq_r = rr.eq,
                        !.ol[i] = rl.out, !.or[i] = rr.out]

\* 2. compression, one sample
StripComp(st, i, sample_rate) ==
    IF ~st.ch.comp_active THEN st
    ELSE LET c == process_compression(st.ch, st.ol[i], st.or[i],
                      st.ch.comp_threshold, st.ch.comp_ratio, sample_rate)
         IN  [st EXCEPT !.ch = c,
                        !.ol[i] = TDiv(@ * c.comp_gain, GainScale),
                        !.or[i] = TDiv(@ * c.comp_gain, GainScale)]

RECURSIVE StripEqLoop(_, _, _)
StripEqLoop(st, i, len) ==
    IF i >= len THEN st ELSE StripEqLoop(StripEq(st, i), i + 1, len)

RECURSIVE StripCompLoop(_, _, _, _)
StripCompLoop(st, i, len, sample_rate) ==
    IF i >= len THEN st
    ELSE StripCompLoop(StripComp(st, i, sample_rate), i + 1, len, sample_rate)

\* the block's peak absolute value (0 for an empty block)
MaxAbs(buf, len) ==
    LET abs == {0} \cup {Abs(buf[i]) : i \in 0..(len - 1)}
    IN  CHOOSE m \in abs : \A x \in abs : x <= m

\* process_block past the mute test (lib.rs 641-728): copy, inserts, EQ,
\* compression, gain and pan, metering
\* 4. metering: the peaks of the block put out
StripMetered(ch, ol, or, len) ==
    [ch |-> [ch EXCEPT !.peak_l = MaxAbs(ol, len), !.peak_r = MaxAbs(or, len)],
     ol |-> ol, or |-> or]

\* 3. gain and pan, fl and fr being the two final gains
StripGained(st, fl, fr, len) ==
    StripMetered(st.ch,
                 [i \in 0..(len - 1) |-> st.ol[i] * fl],
                 [i \in 0..(len - 1) |-> st.or[i] * fr],
                 len)

StripChain(ch, input_l, input_r, len, sample_rate) ==
    \* 0. inserts: the loop over self.inserts has an empty body
    StripGained(
        StripCompLoop(
            StripEqLoop([ch |-> ch,
                         ol |-> [i \in 0..(len - 1) |-> input_l[i]],
                         or |-> [i \in 0..(len - 1) |-> input_r[i]]],
                        0, len),
            0, len, sample_rate),
        ch.gain * PanGains(ch.pan).l, ch.gain * PanGains(ch.pan).r, len)

\* process_block that does not test the mute flag
process_block_NoMute(ch, input_l, input_r, len, sample_rate) ==
    StripChain(ch, input_l, input_r, len, sample_rate)

\* process_block on blocks of len samples: the strip afterwards and its output
process_block(ch, input_l, input_r, len, sample_rate) ==
    IF ch.mute
    THEN [ch |-> ch, ol |-> Zeros(len), or |-> Zeros(len)]
    ELSE StripChain(ch, input_l, input_r, len, sample_rate)

ChannelStrip_reset(ch) ==
    [ch EXCEPT !.eq_l = EQ_reset(@), !.eq_r = EQ_reset(@),
               !.comp_gain = GainScale]

(***************************************************************************)
(* UnifiedMixerProcessor (lib.rs 776-1101)                                 *)
(***************************************************************************)
NumChannels == 2

ChanIdx == 0..(NumChannels - 1)

\* the caller's levels buffer: one float more than two per channel, filled
\* with a value no peak can take
LevelsCap == 2 * NumChannels + 1

Untouched == -1

NoLast ==
    [op |-> "none", idx |-> 0, arg |-> 0, ps |-> 0, was |-> "", trig |-> 0,
     target |-> 0,
     seek |-> FALSE, n |-> 0, summed |-> {}, heard |-> {}, alloc |-> {}]

\* no 4-lane helper called yet
NoSimd == [op |-> "none", a |-> <<>>, b |-> <<>>, k |-> 0, out |-> <<>>]

(***************************************************************************)
(* envelope.rs: AdsrEnvelope.  Levels (value, sustain_level, the steps) are *)
(* integers in units of 2^-26, a quarter of the spacing of f32 below 1.0;  *)
(* times are in 1/1000 second and sample counts are fractions num / den.   *)
(* A NaN or an infinity is a number outside the finite range.              *)
(***************************************************************************)
EnvOne == 4 * Pow2(F32Bits)

EnvTimeScale == 1000

\* the sample rate the envelopes of the model are constructed with
EnvRate == 40

EnvMaxFinite == 30 * EnvOne

EnvInf == EnvMaxFinite + 1

EnvNaN == EnvMaxFinite + 2

\* `samples > 0.0`: false for a NaN
EnvPositive(samples) == samples.num # EnvNaN /\ samples.num > 0

\* `a <= b`: false when either is a NaN
EnvLe(a, b) == a # EnvNaN /\ b # EnvNaN /\ a <= b

\* sums and differences of levels, rounded to f32
EnvAdd(a, b) == IF a = EnvNaN \/ b = EnvNaN THEN EnvNaN ELSE F32Round(a + b)

EnvSub(a, b) == IF a = EnvNaN \/ b = EnvNaN THEN EnvNaN ELSE F32Round(a - b)

\* time * sample_rate, in samples
EnvSamples(time, sample_rate) ==
    IF time = EnvNaN \/ time = EnvInf THEN [num |-> time, den |-> 1]
    ELSE [num |-> time * (sample_rate \div Gcd(sample_rate, EnvTimeScale)),
          den |-> EnvTimeScale \div Gcd(sample_rate, EnvTimeScale)]

\* n / d to the nearest integer, for n >= 0 and d > 0
EnvNearest(n, d) == IF (n % d) >= d - (n % d) THEN (n \div d) + 1 ELSE n \div d

\* the level x divided by a positive number of samples, rounded to f32
EnvQuot(x, samples) ==
    IF x = EnvNaN \/ samples.num = EnvNaN THEN EnvNaN
    ELSE IF samples.num = EnvInf THEN 0
    ELSE F32Round(EnvNearest(x * samples.den, samples.num))

\* f32::clamp(0.0, 1.0): a NaN stays a NaN
EnvClamp(x) ==
    IF x = EnvNaN THEN EnvNaN ELSE IF x = EnvInf THEN EnvOne ELSE Max(0, Min(x, EnvOne))

AdsrEnvelope_new(sample_rate) ==
    [attack_time |-> 1, decay_time |-> 100, sustain_level |-> EnvOne,
     release_time |-> 50, sample_rate |-> sample_rate, phase |-> "Idle",
     value |-> 0, attack_step |-> 0, decay_step |-> 0, release_step |-> 0]

StepsFor(e, attack_samples, decay_samples, release_samples, decay_dist) ==
    [e EXCEPT !.attack_step = IF EnvPositive(attack_samples)
                              THEN EnvQuot(EnvOne, attack_samples) ELSE EnvOne,
              !.decay_step = IF EnvPositive(decay_samples)
                             THEN EnvQuot(decay_dist, decay_samples) ELSE decay_dist,
              !.release_step = IF EnvPositive(release_samples)
                               THEN EnvQuot(EnvOne, release_samples) ELSE EnvOne]

recalculate_steps(e) ==
    StepsFor(e, EnvSamples(e.attack_time, e.sample_rate),
             EnvSamples(e.decay_time, e.sample_rate),
             EnvSamples(e.release_time, e.sample_rate),
             EnvSub(EnvOne, e.sustain_level))

set_params(e, attack, decay, sustain, release) ==
    recalculate_steps([e EXCEPT !.attack_time = attack, !.decay_time = decay,
                                !.sustain_level = EnvClamp(sustain),
                                !.release_time = release])

AdsrEnvelope_trigger(e) == recalculate_steps([e EXCEPT !.phase = "Attack"])

AdsrEnvelope_release(e) ==
    IF e.phase # "Idle" THEN recalculate_steps([e EXCEPT !.phase = "Release"]) ELSE e

\* the phases of process, v being the value after the step
Attacked(e, v) ==
    IF EnvLe(EnvOne, v) THEN [e EXCEPT !.value = EnvOne, !.phase = "Decay"]
    ELSE [e EXCEPT !.value = v]

Decayed(e, v) ==
    IF EnvLe(v, e.sustain_level)
    THEN [e EXCEPT !.value = e.sustain_level, !.phase = "Sustain"]
    ELSE [e EXCEPT !.value = v]

Released(e, v) ==
    IF EnvLe(v, 0) THEN [e EXCEPT !.value = 0, !.phase = "Idle"]
    ELSE [e EXCEPT !.value = v]

AdsrEnvelope_process(e) ==
    CASE e.phase = "Idle" -> [e EXCEPT !.value = 0]
      [] e.phase = "Attack" -> Attacked(e, EnvAdd(e.value, e.attack_step))
      [] e.phase = "Decay" -> Decayed(e, EnvSub(e.value, e.decay_step))
      [] e.phase = "Sustain" -> [e EXCEPT !.value = e.sustain_level]
      [] e.phase = "Release" -> Released(e, EnvSub(e.value, e.release_step))

is_active(e) == e.phase # "Idle"

\* AdsrEnvelope::new before its first call
NoEnv == [adsr |-> AdsrEnvelope_new(EnvRate), op |-> "new"]

(***************************************************************************)
(* synth.rs: Voice and PolySynth.  Of a voice the model keeps what decides *)
(* its allocation: the oscillator's frequency, the envelope, active,       *)
(* note_id and velocity; the signal path (oscillator phase, filter state)  *)
(* is left out.  Voices are indexed from 0 as in the Vec.                  *)
(***************************************************************************)
\* 440 * 2^((note - 69) / 12), for the notes a whole number of octaves from 69
NoteFreq(note) ==
    IF note >= 69 THEN 440 * Pow2((note - 69) \div 12)
    ELSE 440 \div Pow2((69 - note) \div 12)

Voice_new(sample_rate) ==
    [frequency |-> 440, env |-> AdsrEnvelope_new(sample_rate), active |-> FALSE,
     note_id |-> 0, velocity |-> 0]

Voice_trigger(v, note, velocity) ==
    [v EXCEPT !.frequency = NoteFreq(note), !.env = AdsrEnvelope_trigger(@),
              !.active = TRUE, !.note_id = note, !.velocity = velocity]

Voice_release(v) == [v EXCEPT !.env = AdsrEnvelope_release(@)]

\* the envelope step of Voice::process, e being the envelope after it
VoiceStepped(v, e) == [v EXCEPT !.env = e, !.active = is_active(e)]

Voice_process(v) ==
    IF ~v.active THEN v ELSE VoiceStepped(v, AdsrEnvelope_process(v.env))

PolySynth_new(sample_rate, max_voices) ==
    [voices |-> [i \in 0..(max_voices - 1) |-> Voice_new(sample_rate)],
     sample_rate |-> sample_rate]

\* the voices that are not active
FreeVoices(voices) == {i \in DOMAIN voices : ~voices[i].active}

\* the smallest index of a non-empty set of indices
FirstOf(S) == CHOOSE i \in S : \A j \in S : i <= j

\* trigger_note that steals the last voice instead of the first
trigger_note_StealLast(ps, note, velocity) ==
    IF FreeVoices(ps.voices) # {}
    THEN [ps EXCEPT !.voices[FirstOf(FreeVoices(ps.voices))] =
                        Voice_trigger(@, note, velocity)]
    ELSE IF DOMAIN ps.voices # {}
    THEN [ps EXCEPT !.voices[Cardinality(DOMAIN ps.voices) - 1] =
                        Voice_trigger(@, note, velocity)]
    ELSE ps

trigger_note(ps, note, velocity) ==
    IF FreeVoices(ps.voices) # {}
    THEN [ps EXCEPT !.voices[FirstOf(FreeVoices(ps.voices))] =
                        Voice_trigger(@, note, velocity)]
    ELSE IF DOMAIN ps.voices # {}
    THEN [ps EXCEPT !.voices[0] = Voice_trigger(@, note, velocity)]
    ELSE ps

release_note(ps, note) ==
    [ps EXCEPT !.voices =
        [i \in DOMAIN @ |-> IF @[i].active /\ @[i].note_id = note
                            THEN Voice_release(@[i]) ELSE @[i]]]

PolySynth_process(ps) ==
    [ps EXCEPT !.voices = [i \in DOMAIN @ |-> Voice_process(@[i])]]

\* no PolySynth constructed yet
NoSynth ==
    [made |-> FALSE, ps |-> PolySynth_new(EnvRate, 0), op |-> "none", note |-> 0,
     velocity |-> 0, stolen |-> {}]

\* CombFilter::new(0) before its first call
NoComb ==
    [c |-> CombFilter_new(0), calls |-> 0, op |-> "new", new_input |-> 0, out |-> 0]

\* the audio thread outside sync_state
NoAudio ==
    [pc |-> "idle", seek_trigger |-> 0, loop_enabled |-> FALSE, loop_start |-> 0]

\* the control thread before its first request; the loop of a zeroed block
\* counts as written
NoCtl ==
    [pc |-> "idle", target |-> 0, requested |-> FALSE, applied |-> FALSE,
     loops |-> {<<FALSE, 0, 0>>}]

\* no ReverbProcessor constructed yet
NoReverb == [made |-> FALSE]

\* what the last delay-line call returned
NoRet == [op |-> "none", arg |-> 0, kind |-> "none", value |-> 0]

NoBlock == [block_size |-> 0, input |-> <<>>]

\* UnifiedMixerProcessor::new(sample_rate, num_channels), shared buffer zeroed
Init ==
    /\ transport = Transport_new(SampleRate)
    /\ tstate = "Stopped"
    /\ attached = FALSE
    /\ sab = SabZero
    /\ channels = [c \in ChanIdx |-> ChannelStrip_new(SampleRate)]
    /\ any_solo_active = FALSE
    /\ in_l = Zeros(ScratchWindow)
    /\ in_r = Zeros(ScratchWindow)
    /\ scratch_len = ScratchInit
    /\ out_l = <<>>
    /\ out_r = <<>>
    /\ levels = [k \in 0..(LevelsCap - 1) |-> Untouched]
    /\ ret = "unit"
    /\ pc = "idle"
    /\ blk = NoBlock
    /\ nblocks = 0
    /\ last = NoLast
    /\ LAST_LOOP_STATE = <<FALSE, 0, 0>>
    /\ peak_acc = [c \in ChanIdx |-> [l |-> 0, r |-> 0]]
    /\ dl = DelayLine_new(0)
    /\ dl_hist = <<>>
    /\ dl_ret = NoRet
    /\ simd = NoSimd
    /\ reverb = NoReverb
    /\ comb = NoComb
    /\ audio = NoAudio
    /\ ctl = NoCtl
    /\ env = NoEnv
    /\ synth = NoSynth

\* UnifiedMixerProcessor::reset on the channel list
Mixer_reset(chs) == [c \in DOMAIN chs |-> ChannelStrip_reset(chs[c])]

\* sync_state, step by step, on m = [transport, tstate, sab, channels, seek]
\* the play-state command that takes no pause
SyncPlayState_NoPause(m) ==
    LET play_state == m.sab[idx_play_state]
        t == m.transport
    IN  CASE play_state = 0 ->
               IF t.is_playing
               THEN [m EXCEPT !.transport = stop(t), !.tstate = "Stopped"]
               ELSE m
          [] play_state = 1 ->
               IF ~t.is_playing
               THEN [m EXCEPT !.transport = play(t), !.tstate = "Playing"]
               ELSE m
          [] OTHER -> m

SyncPlayState(m) ==
    LET play_state == m.sab[idx_play_state]
        t == m.transport
    IN  CASE play_state = 0 ->
               IF t.is_playing
               THEN [m EXCEPT !.transport = stop(t), !.tstate = "Stopped"]
               ELSE m
          [] play_state = 1 ->
               IF ~t.is_playing
               THEN [m EXCEPT !.transport = play(t), !.tstate = "Playing"]
               ELSE m
          [] play_state = 2 ->
               IF t.is_playing
               THEN [m EXCEPT !.transport = pause(t), !.tstate = "Paused"]
               ELSE m
          [] OTHER -> m

\* the tempo command that stores the transport's tempo over a rejected one
BpmDeadBand == BpmScale \div 1000

SyncBpm_StoreBack(m) ==
    LET bpm == m.sab[idx_bpm]
    IN  IF bpm > 0 /\ Abs(bpm - m.transport.bpm) > BpmDeadBand
        THEN [m EXCEPT !.transport = set_bpm(@, bpm)]
        ELSE [m EXCEPT !.sab[idx_bpm] = m.transport.bpm]

\* a tempo check without the dead band
SyncBpm_AnyDifference(m) ==
    LET bpm == m.sab[idx_bpm]
    IN  IF bpm > 0 /\ bpm # m.transport.bpm
        THEN [m EXCEPT !.transport = set_bpm(@, bpm)]
        ELSE m

SyncBpm(m) ==
    LET bpm == m.sab[idx_bpm]
    IN  IF bpm > 0 /\ Abs(bpm - m.transport.bpm) > BpmDeadBand
        THEN [m EXCEPT !.transport = set_bpm(@, bpm)]
        ELSE m

\* the seek command without the store that clears the trigger
SyncSeek_KeepTrigger(m) ==
    IF m.sab[idx_seek_trigger] = 1 /\ m.sab[idx_seek_target] >= 0
    THEN [m EXCEPT
            !.transport = set_position_samples(@,
                              TicksToSamples(m.transport, m.sab[idx_seek_target])),
            !.channels = Mixer_reset(@),
            !.seek = TRUE]
    ELSE m

SyncSeek(m) ==
    IF m.sab[idx_seek_trigger] = 1
    THEN LET target_ticks == m.sab[idx_seek_target]
             cleared == [m EXCEPT !.sab[idx_seek_trigger] = 0]
         IN  IF target_ticks >= 0
             THEN [cleared EXCEPT
                     !.transport = set_position_samples(@,
                                       TicksToSamples(m.transport, target_ticks)),
                     !.channels = Mixer_reset(@),
                     !.seek = TRUE]
             ELSE cleared
    ELSE m

SyncLoop(m) ==
    [m EXCEPT !.transport =
        set_loop(@, m.sab[idx_loop_enabled] > 0,
                 m.sab[idx_loop_start], m.sab[idx_loop_end])]

\* the loop triple sync_state reads from the shared block
LoopRead(sb) ==
    <<sb[idx_loop_enabled] > 0, sb[idx_loop_start], sb[idx_loop_end]>>

\* a write-back that keeps every digit of the position
PositionAsF32_Exact(t) == t.current_sample

\* `current_sample as f32`
PositionAsF32(t) == F32Round(t.current_sample)

\* get_current_tick() as f32
RatioAsF32(q) == IF q.den = 0 THEN Normal(0, 0) ELSE F32Quot(q.num, q.den)

TickAsF32(t) == CHOOSE v \in {RatioAsF32(q) : q \in {get_current_tick(t)}} : TRUE

SyncWriteBack(m) ==
    [m EXCEPT !.sab[idx_position_samples] = PositionAsF32(m.transport),
              !.sab[idx_position_ticks] = TickAsF32(m.transport)]

\* sync_state that writes the position back before it reads the commands
sync_state_WriteBackFirst(m) ==
    SyncLoop(SyncSeek(SyncBpm(SyncPlayState(SyncWriteBack(m)))))

sync_state(m) ==
    SyncWriteBack(SyncLoop(SyncSeek(SyncBpm(SyncPlayState(m)))))

\* index of sample s of channel c in the interleaved input
InIdx(s, c) == s * NumChannels * 2 + c * 2

Covered(b, s, c) == s < b.block_size /\ InIdx(s, c) + 1 < Len(b.input)

\* the interleaved input is a sequence: element idx of the slice is input[idx+1]
InAt(b, idx) == b.input[idx + 1]

HasSignal(b, c) ==
    \E s \in 0..(b.block_size - 1) :
        /\ Covered(b, s, c)
        /\ \/ Abs(InAt(b, InIdx(s, c))) > SignalThreshold
           \/ Abs(InAt(b, InIdx(s, c) + 1)) > SignalThreshold

\* the channel is taken into the mix loop (lib.rs 950-951)
Audible(ch, any_solo) == ~ch.mute /\ (~any_solo \/ ch.solo)

\* the channel's block is skipped as silent (lib.rs 969)
SkipSilent(b, c) == ~HasSignal(b, c)

BlockAdd(x, y, n) == [s \in 0..(n - 1) |-> x[s] + y[s]]

\* one iteration of the mix loop for channel c, on
\* m = [channels, in_l, in_r, out_l, out_r, summed]
\* the strip's block r summed into the output unless the input was silent
MixSummed(m1, b, c, r) ==
    IF SkipSilent(b, c) THEN m1
    ELSE [m1 EXCEPT !.channels[c] = r.ch,
                    !.out_l = BlockAdd(@, r.ol, b.block_size),
                    !.out_r = BlockAdd(@, r.or, b.block_size),
                    !.summed = @ \cup {c}]

\* the strip run on the de-interleaved scratch il, ir
MixProcessed(m, b, c, il, ir, sample_rate) ==
    MixSummed([m EXCEPT !.in_l = il, !.in_r = ir], b, c,
              process_block(m.channels[c], il, ir, b.block_size, sample_rate))

MixChannel(m, b, c, any_solo, sample_rate) ==
    IF ~Audible(m.channels[c], any_solo) THEN m
    ELSE MixProcessed(m, b, c,
            [s \in DOMAIN m.in_l |->
                IF Covered(b, s, c) THEN InAt(b, InIdx(s, c)) ELSE m.in_l[s]],
            [s \in DOMAIN m.in_r |->
                IF Covered(b, s, c) THEN InAt(b, InIdx(s, c) + 1) ELSE m.in_r[s]],
            sample_rate)

RECURSIVE MixLoop(_, _, _, _, _)
MixLoop(m, b, c, any_solo, sample_rate) ==
    IF c >= NumChannels THEN m
    ELSE MixLoop(MixChannel(m, b, c, any_solo, sample_rate), b, c + 1,
                 any_solo, sample_rate)

AnySolo(chs) == \E c \in DOMAIN chs : chs[c].solo

\* a mix that starts from what the scratch holds instead of zeroed outputs
MixDown_NoZero(chs, il, ir, b, sample_rate) ==
    MixLoop([channels |-> chs, in_l |-> il, in_r |-> ir,
             out_l |-> [s \in 0..(b.block_size - 1) |-> il[s]],
             out_r |-> [s \in 0..(b.block_size - 1) |-> ir[s]],
             summed |-> {}],
            b, 0, AnySolo(chs), sample_rate)

\* the part of process_mix after sync_state, up to the transport advance
MixDown(chs, il, ir, b, sample_rate) ==
    MixLoop([channels |-> chs, in_l |-> il, in_r |-> ir,
             out_l |-> Zeros(b.block_size), out_r |-> Zeros(b.block_size),
             summed |-> {}],
            b, 0, AnySolo(chs), sample_rate)

(***************************************************************************)
(* Actions                                                                 *)
(***************************************************************************)
\* set_shared_state_buffer(ptr): ptr is null or the shared buffer
SetSharedStateBuffer(nonnull) ==
    /\ UNCHANGED fxvars
    /\ UNCHANGED <<LAST_LOOP_STATE, peak_acc, dl, dl_hist, dl_ret>>
    /\ pc = "idle"
    /\ attached' = nonnull
    /\ ret' = "unit"
    /\ last' = [NoLast EXCEPT !.op = "set_shared_state_buffer"]
    /\ UNCHANGED <<transport, tstate, sab, channels, any_solo_active, in_l, in_r,
                   scratch_len, out_l, out_r, levels, pc, blk, nblocks>>

\* the control thread stores v into field i of the shared block
ControlWrite(i, v) ==
    /\ UNCHANGED fxvars
    /\ UNCHANGED <<LAST_LOOP_STATE, peak_acc, dl, dl_hist, dl_ret>>
    /\ sab[i] # v
    /\ sab' = [sab EXCEPT ![i] = v]
    /\ UNCHANGED <<transport, tstate, attached, channels, any_solo_active, in_l, in_r,
                   scratch_len, out_l, out_r, levels, ret, pc, blk, nblocks, last>>

\* process_mix, first part: sync_state (lib.rs 921), m being the mixer as
\* sync_state leaves it
SyncStateTo(b, m) ==
    /\ UNCHANGED fxvars
    /\ pc = "idle"
    /\ nblocks < MaxBlocks
    /\ b.block_size <= ScratchWindow \/ b.input = <<>>
    /\ pc' = "synced"
    /\ blk' = b
    /\ IF attached
       THEN /\ transport' = m.transport
            /\ tstate' = m.tstate
            /\ sab' = m.sab
            /\ channels' = m.channels
            /\ last' = [NoLast EXCEPT !.op = "sync",
                                      !.ps = sab[idx_play_state],
                                      !.was = tstate,
                                      !.trig = sab[idx_seek_trigger],
                                      !.target = sab[idx_seek_target],
                                      !.seek = m.seek,
                                      !.alloc =
                                         IF LoopRead(sab) # LAST_LOOP_STATE
                                         THEN {"format_loop_update"}
                                         ELSE {}]
            /\ LAST_LOOP_STATE' = LoopRead(sab)
       ELSE /\ UNCHANGED <<transport, tstate, sab, channels,
                           LAST_LOOP_STATE>>
            /\ last' = [NoLast EXCEPT !.op = "sync_null"]
    /\ UNCHANGED <<attached, any_solo_active, in_l, in_r, scratch_len,
                   out_l, out_r, levels, ret, nblocks, peak_acc,
                   dl, dl_hist, dl_ret>>

SyncState(b) ==
    SyncStateTo(b, sync_state([transport |-> transport, tstate |-> tstate,
                               sab |-> sab, channels |-> channels,
                               seek |-> FALSE]))

\* process_mix, second part: zero, mix, advance (lib.rs 924-994), m being
\* the mix
MixAdvanceTo(m) ==
    /\ UNCHANGED fxvars
    /\ pc = "synced"
    /\ channels' = m.channels
    /\ in_l' = m.in_l
    /\ in_r' = m.in_r
    /\ out_l' = m.out_l
    /\ out_r' = m.out_r
    /\ last' = [NoLast EXCEPT !.op = "mix", !.n = blk.block_size,
                              !.arg = transport.current_sample,
                              !.seek = last.seek,
                              !.summed = m.summed,
                              !.heard = {c \in ChanIdx : HasSignal(blk, c)},
                              !.alloc =
                                 (IF scratch_len < blk.block_size
                                  THEN {"resize_scratch"} ELSE {})
                                 \cup
                                 (IF LoopWraps(transport, blk.block_size)
                                  THEN {"format_loop_wrap"} ELSE {})]
    /\ peak_acc' =
         [c \in ChanIdx |->
             IF c \in m.summed
             THEN [l |-> Max(peak_acc[c].l, m.channels[c].peak_l),
                   r |-> Max(peak_acc[c].r, m.channels[c].peak_r)]
             ELSE peak_acc[c]]
    /\ scratch_len' = Max(scratch_len, blk.block_size)
    /\ any_solo_active' = AnySolo(channels)
    /\ transport' = advance(transport, blk.block_size)
    /\ UNCHANGED tstate
    /\ pc' = "idle"
    /\ blk' = NoBlock
    /\ nblocks' = nblocks + 1
    /\ ret' = "unit"
    /\ UNCHANGED <<attached, sab, levels, LAST_LOOP_STATE, dl, dl_hist, dl_ret>>

MixAdvance == MixAdvanceTo(MixDown(channels, in_l, in_r, blk, SampleRate))

\* process_mix as one call: sync_state, zero, mix, advance (lib.rs 904-995);
\* a call that is not counted leaves the call counter alone, so a line of
\* such calls has no end
ProcessMixTo(b, counted, s, m) ==
    /\ UNCHANGED fxvars
    /\ pc = "idle"
    /\ counted => nblocks < MaxBlocks
    /\ nblocks' = IF counted THEN nblocks + 1 ELSE nblocks
    /\ b.block_size <= ScratchWindow \/ b.input = <<>>
    /\ tstate' = s.tstate
    /\ sab' = s.sab
    /\ channels' = m.channels
    /\ in_l' = m.in_l
    /\ in_r' = m.in_r
    /\ out_l' = m.out_l
    /\ out_r' = m.out_r
    /\ any_solo_active' = AnySolo(s.channels)
    /\ transport' = advance(s.transport, b.block_size)
    /\ last' = [NoLast EXCEPT !.op = "process_mix", !.n = b.block_size,
                              !.arg = s.transport.current_sample,
                              !.seek = s.seek,
                              !.summed = m.summed,
                              !.heard = {c \in ChanIdx : HasSignal(b, c)},
                              !.alloc =
                                 (IF attached /\ LoopRead(sab) # LAST_LOOP_STATE
                                  THEN {"format_loop_update"} ELSE {})
                                 \cup
                                 (IF scratch_len < b.block_size
                                  THEN {"resize_scratch"} ELSE {})
                                 \cup
                                 (IF LoopWraps(s.transport, b.block_size)
                                  THEN {"format_loop_wrap"} ELSE {})]
    /\ peak_acc' =
         [c \in ChanIdx |->
             IF c \in m.summed
             THEN [l |-> Max(peak_acc[c].l, m.channels[c].peak_l),
                   r |-> Max(peak_acc[c].r, m.channels[c].peak_r)]
             ELSE peak_acc[c]]
    /\ LAST_LOOP_STATE' = IF attached THEN LoopRead(sab) ELSE LAST_LOOP_STATE
    /\ scratch_len' = Max(scratch_len, b.block_size)
    /\ ret' = "unit"
    /\ UNCHANGED <<attached, levels, pc, blk, dl, dl_hist, dl_ret>>

\* s: the mixer as sync_state leaves it
ProcessMixSynced(b, counted, s) ==
    ProcessMixTo(b, counted, s, MixDown(s.channels, in_l, in_r, b, SampleRate))

ProcessMix(b, counted) ==
    ProcessMixSynced(b, counted,
        IF attached
        THEN sync_state([transport |-> transport, tstate |-> tstate,
                         sab |-> sab, channels |-> channels, seek |-> FALSE])
        ELSE [transport |-> transport, tstate |-> tstate,
              sab |-> sab, channels |-> channels, seek |-> FALSE])

SetChannelParams(channel_idx, gain, pan, mute, solo, eq_active, comp_active) ==
    /\ UNCHANGED fxvars
    /\ UNCHANGED <<LAST_LOOP_STATE, peak_acc, dl, dl_hist, dl_ret>>
    /\ pc = "idle"
    /\ channels' =
         IF channel_idx < NumChannels
         THEN [channels EXCEPT ![channel_idx] =
                  [@ EXCEPT !.gain = gain,
                            !.pan = Max(-1, Min(1, pan)),
                            !.mute = mute, !.solo = solo,
                            !.eq_active = eq_active,
                            !.comp_active = comp_active]]
         ELSE channels
    /\ ret' = "unit"
    /\ last' = [NoLast EXCEPT !.op = "set_channel_params", !.idx = channel_idx]
    /\ UNCHANGED <<transport, tstate, attached, sab, any_solo_active, in_l, in_r,
                   scratch_len, out_l, out_r, levels, pc, blk, nblocks>>

SetChannelEq(channel_idx, low_gain, mid_gain, high_gain, low_freq, high_freq) ==
    /\ UNCHANGED fxvars
    /\ UNCHANGED <<LAST_LOOP_STATE, peak_acc, dl, dl_hist, dl_ret>>
    /\ pc = "idle"
    /\ channels' =
         IF channel_idx < NumChannels
         THEN [channels EXCEPT ![channel_idx] =
                  [@ EXCEPT
                     !.eq_l = update_coefficients(@, low_gain, mid_gain,
                                  high_gain, low_freq, high_freq),
                     !.eq_r = update_coefficients(@, low_gain, mid_gain,
                                  high_gain, low_freq, high_freq)]]
         ELSE channels
    /\ ret' = "unit"
    /\ last' = [NoLast EXCEPT !.op = "set_channel_eq", !.idx = channel_idx]
    /\ UNCHANGED <<transport, tstate, attached, sab, any_solo_active, in_l, in_r,
                   scratch_len, out_l, out_r, levels, pc, blk, nblocks>>

SetChannelCompression(channel_idx, threshold, ratio) ==
    /\ UNCHANGED fxvars
    /\ UNCHANGED <<LAST_LOOP_STATE, peak_acc, dl, dl_hist, dl_ret>>
    /\ pc = "idle"
    /\ channels' =
         IF channel_idx < NumChannels
         THEN [channels EXCEPT ![channel_idx] =
                  [@ EXCEPT !.comp_threshold = threshold,
                            !.comp_ratio = ratio]]
         ELSE channels
    /\ ret' = "unit"
    /\ last' = [NoLast EXCEPT !.op = "set_channel_compression",
                              !.idx = channel_idx]
    /\ UNCHANGED <<transport, tstate, attached, sab, any_solo_active, in_l, in_r,
                   scratch_len, out_l, out_r, levels, pc, blk, nblocks>>

\* the effect types add_effect knows (lib.rs 1078)
KnownEffectTypes == {0}

\* add_effect that takes every effect type for the simple delay
add_effect_AnyType(chs, channel_idx, effect_type, sample_rate) ==
    IF channel_idx >= NumChannels THEN [channels |-> chs, ret |-> "err"]
    ELSE [channels |->
             [chs EXCEPT ![channel_idx].inserts =
                  Append(@, SimpleDelay_new(sample_rate))],
          ret |-> "ok"]

\* add_effect: the new channel list and the Result
add_effect(chs, channel_idx, effect_type, sample_rate) ==
    IF channel_idx >= NumChannels THEN [channels |-> chs, ret |-> "err"]
    ELSE IF effect_type \notin KnownEffectTypes
         THEN [channels |-> chs, ret |-> "err"]
         ELSE [channels |->
                  [chs EXCEPT ![channel_idx].inserts =
                       Append(@, SimpleDelay_new(sample_rate))],
               ret |-> "ok"]

AddEffect(channel_idx, effect_type) ==
    /\ UNCHANGED fxvars
    /\ UNCHANGED <<LAST_LOOP_STATE, peak_acc, dl, dl_hist, dl_ret>>
    /\ pc = "idle"
    /\ \A c \in ChanIdx : Len(channels[c].inserts) < MaxInserts
    /\ LET r == add_effect(channels, channel_idx, effect_type, SampleRate)
       IN  /\ channels' = r.channels
           /\ ret' = r.ret
    /\ last' = [NoLast EXCEPT !.op = "add_effect", !.idx = channel_idx,
                              !.arg = effect_type]
    /\ UNCHANGED <<transport, tstate, attached, sab, any_solo_active, in_l, in_r,
                   scratch_len, out_l, out_r, levels, pc, blk, nblocks>>

\* get_channel_levels that clears every channel's peaks, reported or not
get_channel_levels_ResetAll(chs, buf, len) ==
    [channels |-> [i \in DOMAIN chs |->
                      [chs[i] EXCEPT !.peak_l = 0, !.peak_r = 0]],
     levels |-> [k \in DOMAIN buf |->
                    IF k % 2 = 0 /\ k + 1 < len /\ k \div 2 \in DOMAIN chs
                    THEN chs[k \div 2].peak_l
                    ELSE IF k % 2 = 1 /\ k < len /\ k \div 2 \in DOMAIN chs
                         THEN chs[k \div 2].peak_r
                         ELSE buf[k]]]

\* get_channel_levels(levels_ptr, len): the channels and the buffer afterwards
get_channel_levels(chs, buf, len) ==
    [channels |-> [i \in DOMAIN chs |->
                      IF i * 2 + 1 < len
                      THEN [chs[i] EXCEPT !.peak_l = 0, !.peak_r = 0]
                      ELSE chs[i]],
     levels |-> [k \in DOMAIN buf |->
                    IF k % 2 = 0 /\ k + 1 < len /\ k \div 2 \in DOMAIN chs
                    THEN chs[k \div 2].peak_l
                    ELSE IF k % 2 = 1 /\ k < len /\ k \div 2 \in DOMAIN chs
                         THEN chs[k \div 2].peak_r
                         ELSE buf[k]]]

GetChannelLevels(len) ==
    /\ UNCHANGED fxvars
    /\ pc = "idle"
    /\ len <= LevelsCap
    /\ LET r == get_channel_levels(channels, levels, len)
       IN  /\ channels' = r.channels
           /\ levels' = r.levels
    /\ peak_acc' = [i \in ChanIdx |->
                       IF i * 2 + 1 < len THEN [l |-> 0, r |-> 0]
                       ELSE peak_acc[i]]
    /\ ret' = "unit"
    /\ last' = [NoLast EXCEPT !.op = "get_channel_levels", !.n = len]
    /\ UNCHANGED <<transport, tstate, attached, sab, any_solo_active, in_l, in_r,
                   scratch_len, out_l, out_r, pc, blk, nblocks,
                   LAST_LOOP_STATE, dl, dl_hist, dl_ret>>

Reset ==
    /\ UNCHANGED fxvars
    /\ UNCHANGED <<LAST_LOOP_STATE, peak_acc, dl, dl_hist, dl_ret>>
    /\ pc = "idle"
    /\ channels' = Mixer_reset(channels)
    /\ ret' = "unit"
    /\ last' = [NoLast EXCEPT !.op = "reset"]
    /\ UNCHANGED <<transport, tstate, attached, sab, any_solo_active, in_l, in_r,
                   scratch_len, out_l, out_r, levels, pc, blk, nblocks>>

(***************************************************************************)
(* Specifications.  Each one drives the mixer with its own menu of control *)
(* writes, API calls and input blocks.                                     *)
(***************************************************************************)
\* an input-less block of n frames
EmptyBlock(n) == [block_size |-> n, input |-> <<>>]

\* SpecSeek: play-state, tempo and seek commands
SeekWrites ==
    {<<idx_play_state, v>> : v \in 0..3}
    \cup {<<idx_bpm, v>> : v \in {0, 240 * BpmScale}}
    \cup {<<idx_seek_trigger, 1>>}
    \cup {<<idx_seek_target, v>> : v \in {-TickScale, 1, 67109 * TickScale}}

SeekBlocks == {EmptyBlock(1)}

NextSeek ==
    \/ SetSharedStateBuffer(TRUE)
    \/ \E w \in SeekWrites : ControlWrite(w[1], w[2])
    \/ \E b \in SeekBlocks : SyncState(b)
    \/ MixAdvance

SpecSeek == Init /\ [][NextSeek]_vars

\* SpecLoop: play/pause and the loop region
LoopWrites ==
    {<<idx_play_state, v>> : v \in {1, 2}}
    \cup {<<idx_loop_enabled, v>> : v \in {0, 1}}
    \cup {<<idx_loop_start, v>> : v \in {0, 1}}
    \cup {<<idx_loop_end, v>> : v \in {0, 1, 2}}

LoopBlocks == {EmptyBlock(2), EmptyBlock(3)}

NextLoop ==
    \/ SetSharedStateBuffer(TRUE)
    \/ \E w \in LoopWrites : ControlWrite(w[1], w[2])
    \/ \E b \in LoopBlocks : SyncState(b)
    \/ MixAdvance

SpecLoop == Init /\ [][NextLoop]_vars

\* Spec: channel parameters, EQ settings, inserts and sounding input blocks
\* a parameter set of set_channel_params: gain, pan, mute, solo, eq, comp
ParamSets ==
    {<<1, 0, FALSE, FALSE, FALSE, FALSE>>,
     <<2, 1, TRUE, FALSE, TRUE, TRUE>>,
     <<1, 0, TRUE, TRUE, FALSE, FALSE>>,
     <<1, -1, FALSE, TRUE, TRUE, FALSE>>}

\* interleaved input blocks for two channels: ch0_L, ch0_R, ch1_L, ch1_R per frame
MixBlocks ==
    {[block_size |-> 1, input |-> <<5000, 4000, 0, 0>>],
     [block_size |-> 1, input |-> <<1, -1, 3000, 20>>],
     [block_size |-> 2, input |-> <<5000, 5000, -20, 20, 0, 0, 0, 0>>]}

\* number of process_mix calls Spec drives
MaxMixBlocks == 2

Next ==
    \/ \E c \in ChanIdx, ps \in ParamSets :
          SetChannelParams(c, ps[1], ps[2], ps[3], ps[4], ps[5], ps[6])
    \/ SetChannelEq(0, 6, 0, 0, 200, 5000)
    \/ AddEffect(0, 0)
    \/ \E b \in MixBlocks : nblocks < MaxMixBlocks /\ SyncState(b)
    \/ MixAdvance

Spec == Init /\ [][Next]_vars

\* SpecApi: the configuration calls with channel indices in and out of range
ApiChannels == 0..NumChannels

ApiEffectTypes == {0, 1}

ApiBlocks == {[block_size |-> 1, input |-> <<5000, 4000, 3000, 20>>]}

NextApi ==
    \/ \E c \in ApiChannels, t \in ApiEffectTypes : AddEffect(c, t)
    \/ \E c \in {0, NumChannels} :
          \/ SetChannelParams(c, 2, 1, FALSE, FALSE, TRUE, TRUE)
          \/ SetChannelParams(c, 1, 0, TRUE, TRUE, FALSE, FALSE)
    \/ \E c \in {1, NumChannels} : SetChannelEq(c, 6, 0, 0, 200, 5000)
    \/ \E c \in {1, NumChannels} : SetChannelCompression(c, -6, 2)
    \/ Reset
    \/ \E b \in ApiBlocks : nblocks < MaxMixBlocks /\ SyncState(b)
    \/ MixAdvance

SpecApi == Init /\ [][NextApi]_vars

\* SpecFlush: seeks between sounding blocks on a strip with EQ, compressor
\* and an insert; the second block's input covers only its first frame
FlushWrites ==
    {<<idx_seek_trigger, 1>>, <<idx_seek_target, TickScale>>}

FlushBlocks ==
    {[block_size |-> 2, input |-> <<5000, 5000, 0, 0, 3000, -3000, 2000, 2000>>],
     [block_size |-> 2, input |-> <<4000, 4000, 0, 0>>]}

NextFlush ==
    \/ SetSharedStateBuffer(TRUE)
    \/ \E w \in FlushWrites : ControlWrite(w[1], w[2])
    \/ SetChannelParams(0, 1, 0, FALSE, FALSE, TRUE, TRUE)
    \/ SetChannelEq(0, 6, 0, 0, 200, 5000)
    \/ SetChannelCompression(0, -12, 4)
    \/ AddEffect(0, 0)
    \/ \E b \in FlushBlocks : SyncState(b)
    \/ MixAdvance

SpecFlush == Init /\ [][NextFlush]_vars

\* SpecLevels: metering reads of every length between sounding blocks
LevelBlocks ==
    {[block_size |-> 1, input |-> <<5000, 4000, 3000, 20>>],
     [block_size |-> 2, input |-> <<3000, 20, 0, 0, -3500, 0, 0, 0>>],
     [block_size |-> 1, input |-> <<0, 0, 6000, 6000>>]}

NextLevels ==
    \/ \E len \in 0..LevelsCap : GetChannelLevels(len)
    \/ SetChannelParams(0, 2, 1, FALSE, FALSE, FALSE, FALSE)
    \/ SetChannelParams(1, 1, 0, TRUE, FALSE, FALSE, FALSE)
    \/ \E b \in LevelBlocks : SyncState(b)
    \/ MixAdvance

SpecLevels == Init /\ [][NextLevels]_vars

(***************************************************************************)
(* A delay line on its own: the calls of impl DelayLine in any order       *)
(***************************************************************************)
MaxWrites == 19

DlNew(size) ==
    /\ UNCHANGED fxvars
    /\ dl' = DelayLine_new(size)
    /\ dl_hist' = <<>>
    /\ dl_ret' = [NoRet EXCEPT !.op = "new", !.arg = size, !.kind = "unit"]
    /\ UNCHANGED mixvars

DlWrite(value) ==
    /\ UNCHANGED fxvars
    /\ Len(dl_hist) < MaxWrites
    /\ dl' = DelayLine_write(dl, value)
    /\ dl_hist' = Append(dl_hist, value)
    /\ dl_ret' = [NoRet EXCEPT !.op = "write", !.arg = value, !.kind = "unit"]
    /\ UNCHANGED mixvars

DlRead ==
    /\ UNCHANGED fxvars
    /\ dl_ret' = [NoRet EXCEPT !.op = "read", !.kind = "value",
                               !.value = DelayLine_read(dl)]
    /\ UNCHANGED <<dl, dl_hist>>
    /\ UNCHANGED mixvars

DlReadAt(offset) ==
    /\ UNCHANGED fxvars
    /\ \E o \in read_at(dl, offset) :
          dl_ret' = [NoRet EXCEPT !.op = "read_at", !.arg = offset,
                                  !.kind = o.kind, !.value = o.value]
    /\ UNCHANGED <<dl, dl_hist>>
    /\ UNCHANGED mixvars

DlReadInterpolated(delay_samples) ==
    /\ UNCHANGED fxvars
    /\ dl_ret' = [NoRet EXCEPT !.op = "read_interpolated",
                               !.arg = delay_samples, !.kind = "value",
                               !.value = read_interpolated(dl, delay_samples)]
    /\ UNCHANGED <<dl, dl_hist>>
    /\ UNCHANGED mixvars

DlReset ==
    /\ UNCHANGED fxvars
    /\ dl' = DelayLine_reset(dl)
    /\ dl_hist' = <<>>
    /\ dl_ret' = [NoRet EXCEPT !.op = "reset", !.kind = "unit"]
    /\ UNCHANGED mixvars

\* requested sizes: below, at and above the minimum
DelaySizes == {0, 16, 17}

\* the n-th sample written since construction or reset: even and not zero,
\* of either sign for the first
WriteValues(n) ==
    IF n = 0 THEN {DelayGrid, -DelayGrid} ELSE {DelayGrid * (n + 1)}

\* offsets inside the buffer, at its length, at cursor + length and beyond
ReadOffsets(d) ==
    {0, 1, BufLen(d) - 1, BufLen(d), d.index + BufLen(d),
     d.index + BufLen(d) + 1, d.index + BufLen(d) + 3}

\* whole delays at the offsets, and delays half a sample off
ReadDelays(d) ==
    {DelayGrid * k : k \in ReadOffsets(d)} \cup {-1, 1, DelayGrid + 1}

NextDelay ==
    \/ \E size \in DelaySizes : DlNew(size)
    \/ \E v \in WriteValues(Len(dl_hist)) : DlWrite(v)
    \/ DlRead
    \/ \E offset \in ReadOffsets(dl) : DlReadAt(offset)
    \/ \E delay \in ReadDelays(dl) : DlReadInterpolated(delay)
    \/ DlReset

SpecDelay == Init /\ [][NextDelay]_vars

(***************************************************************************)
(* The 4-lane helpers on their own                                         *)
(***************************************************************************)
SimdGain4(input, gain, with_simd) ==
    /\ simd' = [op |-> "simd_gain_4", a |-> input, b |-> <<>>, k |-> gain,
                out |-> simd_gain_4(input, gain, with_simd)]
    /\ UNCHANGED <<mixvars, dlvars, reverb, unitvars>>

SimdMix4(dry, wet_signal, wet, with_simd) ==
    /\ simd' = [op |-> "simd_mix_4", a |-> dry, b |-> wet_signal, k |-> wet,
                out |-> simd_mix_4(dry, wet_signal, wet, with_simd)]
    /\ UNCHANGED <<mixvars, dlvars, reverb, unitvars>>

\* arrays with different lanes, one of them changed a lane at a time; 4097 is
\* a value whose square needs rounding
LaneArrays ==
    {<<4097, 2, -1, 4097>>, <<-1, 2, -1, 4097>>, <<4097, 4097, -1, 4097>>,
     <<4097, 2, 2, 4097>>, <<4097, 2, -1, 2>>, <<-1, 2, 4097, 4097>>,
     <<2, 2, 2, 2>>, <<1, 2, 3, 4>>}
SimdGains == {0, 2, 4097}
SimdWets == {0, 1, -2}

NextSimd ==
    \/ \E input \in LaneArrays, gain \in SimdGains, with_simd \in BOOLEAN :
          SimdGain4(input, gain, with_simd)
    \/ \E dry \in LaneArrays, wet_signal \in LaneArrays, wet \in SimdWets,
          with_simd \in BOOLEAN :
          SimdMix4(dry, wet_signal, wet, with_simd)

SpecSimd == Init /\ [][NextSimd]_vars

(***************************************************************************)
(* The reverb on its own: constructed at 441 Hz, where its delay lines are *)
(* a hundredth of their length at 44100 Hz, then fed a unit impulse on     *)
(* both channels and silence after it, one slice per call of process       *)
(***************************************************************************)
ReverbRate == 441

ReverbSeconds == 10

ReverbSliceLen == 10

ReverbSamples == ReverbSeconds * ReverbRate

\* the largest decay of the menu: its gain is cut to FeedbackCap
MaxDecay == 1000

\* fully wet, early and late in equal parts, full width, 100 ms of pre-delay,
\* the LFO an eighth of a turn on per sample
ReverbSetting(size, decay, damping, mod_depth) ==
    [size |-> size, decay |-> decay, damping |-> damping,
     pre_delay_time |-> 100, wet |-> 1000, early_late_mix |-> 500,
     width |-> 1000, mod_depth |-> mod_depth, mod_rate |-> 1]

ReverbSettings ==
    {ReverbSetting(0, MaxDecay, 0, 0), ReverbSetting(1, MaxDecay, 111, 1),
     ReverbSetting(0, MaxDecay, 111, 1), ReverbSetting(1, 10, 0, 1),
     ReverbSetting(1, MaxDecay, 0, 0), ReverbSetting(0, MaxDecay, 0, 1),
     ReverbSetting(1, MaxDecay, 111, 0), ReverbSetting(0, 10, 111, 0)}

\* the slice fed after `fed` samples: the impulse is the first sample
ReverbSlice(fed) ==
    [i \in 1..ReverbSliceLen |-> IF fed = 0 /\ i = 1 THEN UnitSample ELSE 0]

ReverbNew(p) ==
    /\ ~reverb.made
    /\ reverb' = [made |-> TRUE, unit |-> ReverbProcessor_new(ReverbRate),
                  settings |-> p, fed |-> 0,
                  output_l |-> <<>>, output_r |-> <<>>]
    /\ UNCHANGED <<mixvars, dlvars, simd, unitvars>>

\* the run after a call of process that returned `done`
ReverbAfter(run, done) ==
    [run EXCEPT !.unit = done.reverb,
                !.fed = @ + ReverbSliceLen,
                !.output_l = done.output_l,
                !.output_r = done.output_r]

ReverbProcess ==
    /\ reverb.made
    /\ reverb.fed + ReverbSliceLen <= ReverbSamples
    /\ reverb' = ReverbAfter(reverb,
            ReverbProcessor_process(reverb.unit, ReverbSlice(reverb.fed),
                                    ReverbSlice(reverb.fed), reverb.settings,
                                    ReverbSliceLen))
    /\ UNCHANGED <<mixvars, dlvars, simd, unitvars>>

NextReverb ==
    \/ \E p \in ReverbSettings : ReverbNew(p)
    \/ ReverbProcess

SpecReverb == Init /\ [][NextReverb]_vars

\* SpecEmptyLoop: loops (in 1/TickScale ticks) that are reversed, empty in
\* ticks, empty in samples (an end before tick 0 casts to sample 0), and
\* proper
EmptyLoopWrites ==
    {<<idx_play_state, 1>>, <<idx_loop_enabled, 1>>}
    \cup {<<idx_loop_start, v>> : v \in {-1, 0, 2}}
    \cup {<<idx_loop_end, v>> : v \in {0, 1}}

EmptyLoopBlocks == {EmptyBlock(2)}

NextEmptyLoop ==
    \/ SetSharedStateBuffer(TRUE)
    \/ \E w \in EmptyLoopWrites : ControlWrite(w[1], w[2])
    \/ \E b \in EmptyLoopBlocks : SyncState(b)
    \/ MixAdvance

SpecEmptyLoop == Init /\ [][NextEmptyLoop]_vars

\* SpecTempo: tempo writes at, below and away from the tempo in force, and
\* tempos a fraction of the dead band off the one in force
TempoWrites ==
    {<<idx_play_state, 1>>, <<idx_loop_enabled, 1>>, <<idx_loop_end, 2>>}
    \cup {<<idx_bpm, v * BpmScale>> : v \in {-120, 0, 120, 240}}

TempoNudges == {-1, 1}

NextTempo ==
    \/ SetSharedStateBuffer(TRUE)
    \/ \E w \in TempoWrites : ControlWrite(w[1], w[2])
    \/ \E n \in TempoNudges : ControlWrite(idx_bpm, transport.bpm + n)
    \/ \E b \in SeekBlocks : SyncState(b)
    \/ MixAdvance

SpecTempo == Init /\ [][NextTempo]_vars

\* SpecTransport: a Transport of its own, driven through its constructor, its
\* two setters and the setters wasm_bindgen generates for its public fields
\* (lib.rs 35-42: `pub sample_rate`, `pub bpm`, `pub ppq`)
TransportRates == {44100, SampleRate}

TransportTempos == {v * BpmScale : v \in {60, 240}}

TransportPpqs == {48, 192}

TransportOp(op, arg, t) ==
    /\ pc = "idle"
    /\ transport' = t
    /\ last' = [NoLast EXCEPT !.op = op, !.arg = arg]
    /\ UNCHANGED <<tstate, attached, sab, channels, any_solo_active, in_l, in_r,
                   scratch_len, out_l, out_r, levels, ret, pc, blk, nblocks>>
    /\ UNCHANGED <<LAST_LOOP_STATE, peak_acc, dl, dl_hist, dl_ret>>
    /\ UNCHANGED fxvars

TransportNew(sample_rate) ==
    TransportOp("new", sample_rate, Transport_new(sample_rate))

TransportSetBpm(bpm) ==
    TransportOp("set_bpm", bpm, set_bpm(transport, bpm))

TransportSetSampleRate(sample_rate) ==
    TransportOp("set_sample_rate", sample_rate, set_sample_rate(transport, sample_rate))

TransportAssignBpm(bpm) ==
    TransportOp("bpm=", bpm, [transport EXCEPT !.bpm = bpm])

TransportAssignSampleRate(sample_rate) ==
    TransportOp("sample_rate=", sample_rate, [transport EXCEPT !.sample_rate = sample_rate])

TransportAssignPpq(ppq) ==
    TransportOp("ppq=", ppq, [transport EXCEPT !.ppq = ppq])

NextTransport ==
    \/ \E r \in TransportRates : TransportNew(r)
    \/ \E b \in TransportTempos \cup {-DefaultBpm * BpmScale, 0} : TransportSetBpm(b)
    \/ \E r \in TransportRates \cup {-SampleRate, 0} : TransportSetSampleRate(r)
    \/ \E b \in TransportTempos : TransportAssignBpm(b)
    \/ \E r \in TransportRates : TransportAssignSampleRate(r)
    \/ \E q \in TransportPpqs : TransportAssignPpq(q)

SpecTransport == Init /\ [][NextTransport]_vars

\* SpecComb: a CombFilter put through process and process_modulated with
\* finite and non-finite inputs, coefficients and delays
MaxCombCalls == 3

CombInputs == {0, UnitSample, MaxFinite, Inf, NaN}

CombFeedbacks == {CoefScale \div 2, 2 * CoefScale, NegInf, NaN}

CombDamps == {0, NaN}

CombDelays == {DelayGrid, 3 * DelayGrid, Inf, NaN}

CombCalled(op, r) ==
    /\ comb.calls < MaxCombCalls
    /\ comb' = [c |-> r.comb, calls |-> comb.calls + 1, op |-> op,
                new_input |-> r.new_input, out |-> r.out]
    /\ UNCHANGED <<mixvars, dlvars, simd, reverb, racevars, voicevars>>

CombProcess(input, feedback, damp1, damp2) ==
    CombCalled("process", process(comb.c, input, feedback, damp1, damp2))

CombProcessModulated(input, feedback, damp, mod_delay, usize_bits) ==
    CombCalled("process_modulated",
               process_modulated_AnyDelay(comb.c, input, feedback, damp, 0,
                                          mod_delay, usize_bits))

NextComb ==
    \/ \E i \in CombInputs, f \in CombFeedbacks, d1 \in CombDamps, d2 \in CombDamps :
          CombProcess(i, f, d1, d2)
    \/ \E i \in CombInputs, f \in CombFeedbacks, d \in CombDamps, m \in CombDelays,
          w \in UsizeWidths :
          CombProcessModulated(i, f, d, m, w)

SpecComb == Init /\ [][NextComb]_vars

\* SpecEq: EQ settings and resets between sounding blocks on strips whose
\* EQ is in use
EqGains == {0, 6}

EqBlocks ==
    {[block_size |-> 1, input |-> <<5000, 4000, 3000, 20>>],
     [block_size |-> 2, input |-> <<-2000, 0, 1, 1, 1000, 3000, 0, 0>>]}

NextEq ==
    \/ \E c \in ChanIdx : SetChannelParams(c, 1, 0, FALSE, FALSE, TRUE, FALSE)
    \/ \E c \in ChanIdx, g \in EqGains : SetChannelEq(c, g, g, 0, 200, 5000)
    \/ Reset
    \/ \E b \in EqBlocks : nblocks < MaxMixBlocks /\ SyncState(b)
    \/ MixAdvance

SpecEq == Init /\ [][NextEq]_vars

\* SpecRace: sync_state taken one shared-memory access at a time, against a
\* control thread that requests seeks (target, then trigger) and stores loop
\* triples.  The accesses are plain loads and stores (lib.rs 843-900), so
\* each sees the block as the other thread's stores have left it so far.
RaceRest == <<attached, any_solo_active, in_l, in_r, scratch_len, out_l, out_r,
              levels, ret, pc, blk, nblocks, last, peak_acc, dlvars, simd,
              reverb, comb, voicevars>>

\* lib.rs 834-860: the null test, the play-state and tempo commands, the
\* load of the seek trigger
RaceCommands ==
    /\ audio.pc = "idle" /\ attached /\ pc = "idle"
    /\ transport' = SyncBpm(SyncPlayState(
                        [transport |-> transport, tstate |-> tstate, sab |-> sab,
                         channels |-> channels, seek |-> FALSE])).transport
    /\ tstate' = SyncPlayState(
                    [transport |-> transport, tstate |-> tstate, sab |-> sab,
                     channels |-> channels, seek |-> FALSE]).tstate
    /\ audio' = [audio EXCEPT
                    !.seek_trigger = sab[idx_seek_trigger],
                    !.pc = IF sab[idx_seek_trigger] = 1 THEN "seek" ELSE "loop"]
    /\ UNCHANGED <<sab, channels, LAST_LOOP_STATE, ctl, RaceRest>>

\* lib.rs 863-872: the load of the target, the seek and the flush
RaceSeekTarget ==
    /\ audio.pc = "seek"
    /\ IF sab[idx_seek_target] >= 0
       THEN /\ transport' = set_position_samples(transport,
                                TicksToSamples(transport, sab[idx_seek_target]))
            /\ channels' = Mixer_reset(channels)
            /\ ctl' = [ctl EXCEPT !.applied = @ \/ sab[idx_seek_target] = ctl.target]
       ELSE UNCHANGED <<transport, channels, ctl>>
    /\ audio' = [audio EXCEPT !.pc = "clear"]
    /\ UNCHANGED <<sab, tstate, LAST_LOOP_STATE, RaceRest>>

\* lib.rs 874: the store that resets the trigger
RaceClearTrigger ==
    /\ audio.pc = "clear"
    /\ sab' = [sab EXCEPT ![idx_seek_trigger] = 0]
    /\ audio' = [audio EXCEPT !.pc = "loop"]
    /\ UNCHANGED <<transport, tstate, channels, LAST_LOOP_STATE, ctl, RaceRest>>

\* lib.rs 879 and 880: the loads of loop_enabled and loop_start
RaceLoopEnabled ==
    /\ audio.pc = "loop"
    /\ audio' = [audio EXCEPT !.loop_enabled = sab[idx_loop_enabled] > 0,
                              !.pc = "loop_start"]
    /\ UNCHANGED <<transport, tstate, sab, channels, LAST_LOOP_STATE, ctl, RaceRest>>

RaceLoopStart ==
    /\ audio.pc = "loop_start"
    /\ audio' = [audio EXCEPT !.loop_start = sab[idx_loop_start],
                              !.pc = "loop_end"]
    /\ UNCHANGED <<transport, tstate, sab, channels, LAST_LOOP_STATE, ctl, RaceRest>>

\* lib.rs 881-900: the load of loop_end, set_loop and the position stores
RaceLoopEnd ==
    /\ audio.pc = "loop_end"
    /\ transport' = set_loop(transport, audio.loop_enabled, audio.loop_start,
                             sab[idx_loop_end])
    /\ LAST_LOOP_STATE' = <<audio.loop_enabled, audio.loop_start, sab[idx_loop_end]>>
    /\ sab' = [sab EXCEPT ![idx_position_samples] = PositionAsF32(transport),
                          ![idx_position_ticks] = TickAsF32(transport)]
    /\ audio' = [audio EXCEPT !.pc = "idle"]
    /\ UNCHANGED <<tstate, channels, ctl, RaceRest>>

\* the audio thread's next access
AudioStep ==
    \/ RaceCommands
    \/ RaceSeekTarget
    \/ RaceClearTrigger
    \/ RaceLoopEnabled
    \/ RaceLoopStart
    \/ RaceLoopEnd

\* the control thread stores a seek target, then sets the trigger
CtlSeekTarget(target_ticks) ==
    /\ ctl.pc = "idle"
    /\ sab' = [sab EXCEPT ![idx_seek_target] = target_ticks]
    /\ ctl' = [ctl EXCEPT !.pc = "trigger", !.target = target_ticks,
                          !.requested = FALSE, !.applied = FALSE]
    /\ UNCHANGED <<transport, tstate, channels, LAST_LOOP_STATE, audio, RaceRest>>

CtlSeekTrigger ==
    /\ ctl.pc = "trigger"
    /\ sab' = [sab EXCEPT ![idx_seek_trigger] = 1]
    /\ ctl' = [ctl EXCEPT !.pc = "idle", !.requested = TRUE]
    /\ UNCHANGED <<transport, tstate, channels, LAST_LOOP_STATE, audio, RaceRest>>

\* the control thread stores a loop triple, all three fields at once
CtlLoop(triple) ==
    /\ ctl.pc = "idle"
    /\ triple \notin ctl.loops \/ LoopRead(sab) # triple
    /\ sab' = [sab EXCEPT ![idx_loop_enabled] = IF triple[1] THEN 1 ELSE 0,
                          ![idx_loop_start] = triple[2],
                          ![idx_loop_end] = triple[3]]
    /\ ctl' = [ctl EXCEPT !.loops = @ \cup {triple}]
    /\ UNCHANGED <<transport, tstate, channels, LAST_LOOP_STATE, audio, RaceRest>>

RaceTargets == {TickScale, 2 * TickScale}

RaceLoops == {<<TRUE, 0, 2 * TickScale>>, <<TRUE, TickScale, 3 * TickScale>>}

NextRace ==
    \/ SetSharedStateBuffer(TRUE)
    \/ AudioStep
    \/ \E t \in RaceTargets : CtlSeekTarget(t)
    \/ CtlSeekTrigger
    \/ \E l \in RaceLoops : CtlLoop(l)

SpecRace == Init /\ [][NextRace]_vars

\* process_mix, and with it sync_state, is called for every block of the
\* stream: the audio thread always takes its next access
SpecRaceFair == SpecRace /\ WF_vars(AudioStep)

\* SpecEnv: an AdsrEnvelope put through its calls in any order, with
\* parameters in and out of range: <<attack, decay, sustain, release>>.
\* EnvLong is the release time of 2^26 samples.
EnvLong == EnvOne * (EnvTimeScale \div EnvRate)

EnvParams ==
    {<<50, 50, 0, 50>>,
     <<1, 25, EnvOne \div 2, EnvLong>>,
     <<0, 0, 2 * EnvOne, -1>>,
     <<1, 100, EnvOne, EnvInf>>,
     <<1, 100, EnvNaN, 50>>,
     <<EnvNaN, EnvInf, -EnvOne, EnvNaN>>}

EnvCalled(op, e) ==
    /\ env' = [adsr |-> e, op |-> op]
    /\ UNCHANGED <<mixvars, dlvars, simd, reverb, comb, racevars, synth>>

EnvSetParams(p) == EnvCalled("set_params", set_params(env.adsr, p[1], p[2], p[3], p[4]))

EnvTrigger == EnvCalled("trigger", AdsrEnvelope_trigger(env.adsr))

EnvRelease == EnvCalled("release", AdsrEnvelope_release(env.adsr))

EnvProcess == EnvCalled("process", AdsrEnvelope_process(env.adsr))

NextEnv ==
    \/ \E p \in EnvParams : EnvSetParams(p)
    \/ EnvTrigger
    \/ EnvRelease
    \/ EnvProcess

SpecEnv == Init /\ [][NextEnv]_vars

\* process is called once per sample for as long as the envelope is in use
SpecEnvFair == SpecEnv /\ WF_vars(EnvProcess)

\* SpecSynth: a PolySynth of up to MaxVoices voices, notes triggered and
\* released in any order between process calls
MaxVoices == 2

SynthNotes == {57, 69}

SynthVelocities == {UnitSample}

\* history: the notes whose voice was retriggered while it was active
Stolen(ps, note) ==
    IF FreeVoices(ps.voices) = {} /\ DOMAIN ps.voices # {}
       /\ ps.voices[0].note_id # note
    THEN {ps.voices[0].note_id} ELSE {}

SynthCalled(op, ps, note, velocity, stolen) ==
    /\ synth' = [made |-> TRUE, ps |-> ps, op |-> op, note |-> note,
                 velocity |-> velocity, stolen |-> stolen]
    /\ UNCHANGED <<mixvars, dlvars, simd, reverb, comb, racevars, env>>

SynthNew(max_voices) ==
    /\ ~synth.made
    /\ SynthCalled("new", PolySynth_new(EnvRate, max_voices), 0, 0, {})

SynthTriggerNote(note, velocity) ==
    /\ synth.made
    /\ SynthCalled("trigger_note", trigger_note(synth.ps, note, velocity), note,
                   velocity, synth.stolen \cup Stolen(synth.ps, note))

SynthReleaseNote(note) ==
    /\ synth.made
    /\ SynthCalled("release_note", release_note(synth.ps, note), note, 0,
                   synth.stolen)

SynthProcess ==
    /\ synth.made
    /\ SynthCalled("process", PolySynth_process(synth.ps), 0, 0, synth.stolen)

NextSynth ==
    \/ \E n \in 0..MaxVoices : SynthNew(n)
    \/ \E note \in SynthNotes, velocity \in SynthVelocities :
          SynthTriggerNote(note, velocity)
    \/ \E note \in SynthNotes : SynthReleaseNote(note)
    \/ SynthProcess

SpecSynth == Init /\ [][NextSynth]_vars

\* SpecDetached: a mixer that was never given a shared block, driven with
\* every call it has while the control thread writes commands into a block
\* the mixer does not hold
DetachedWrites ==
    {<<idx_play_state, 1>>, <<idx_seek_trigger, 1>>, <<idx_seek_target, TickScale>>}

DetachedBlocks ==
    {[block_size |-> 1, input |-> <<5000, 4000, 3000, 20>>],
     [block_size |-> 2, input |-> <<3000, 20, 0, 0, -3500, 0, 0, 0>>]}

NextDetached ==
    \/ SetSharedStateBuffer(FALSE)
    \/ \E w \in DetachedWrites : ControlWrite(w[1], w[2])
    \/ SetChannelParams(0, 2, 1, FALSE, FALSE, FALSE, FALSE)
    \/ SetChannelEq(0, 6, 0, 0, 200, 5000)
    \/ AddEffect(0, 0)
    \/ Reset
    \/ GetChannelLevels(2 * NumChannels)
    \/ \E b \in DetachedBlocks : SyncState(b)
    \/ MixAdvance

SpecDetached == Init /\ [][NextDetached]_vars

\* SpecStale: play-state, tempo and loop writes landing before and inside a
\* block
StaleWrites ==
    {<<idx_play_state, v>> : v \in 0..2}
    \cup {<<idx_bpm, 240 * BpmScale>>, <<idx_loop_enabled, 1>>}
    \cup {<<idx_loop_end, v>> : v \in {1, 2}}

StaleBlocks == {EmptyBlock(2), EmptyBlock(3)}

NextStale ==
    \/ SetSharedStateBuffer(TRUE)
    \/ \E w \in StaleWrites : ControlWrite(w[1], w[2])
    \/ \E b \in StaleBlocks : SyncState(b)
    \/ MixAdvance

SpecStale == Init /\ [][NextStale]_vars

\* SpecAlloc: blocks within and beyond the pre-sized scratch, with a loop
AllocWrites ==
    {<<idx_play_state, 1>>, <<idx_loop_enabled, 1>>}
    \cup {<<idx_loop_end, v>> : v \in {1, 2}}

AllocBlocks == {EmptyBlock(2), EmptyBlock(ScratchInit + 1)}

NextAlloc ==
    \/ SetSharedStateBuffer(TRUE)
    \/ \E w \in AllocWrites : ControlWrite(w[1], w[2])
    \/ \E b \in AllocBlocks : SyncState(b)
    \/ MixAdvance

SpecAlloc == Init /\ [][NextAlloc]_vars

\* SpecSilence: a compressing channel driven loud, then silent blocks for ever;
\* the host calls process_mix block after block, so no call waits for ever
LoudBlocks ==
    {[block_size |-> 3,
      input |-> <<50000, 50000, 0, 0, 50000, -50000, 0, 0, 50000, 50000, 0, 0>>]}

SilentBlocks ==
    {[block_size |-> 1, input |-> <<0, 0, 0, 0>>],
     [block_size |-> 2, input |-> <<0, 0, 0, 0, 0, 0, 0, 0>>]}

NextSilence ==
    \/ \E g \in {1, 2}, comp \in BOOLEAN :
          SetChannelParams(0, g, 0, FALSE, FALSE, FALSE, comp)
    \/ \E b \in LoudBlocks : ProcessMix(b, TRUE)
    \/ \E b \in SilentBlocks : ProcessMix(b, FALSE)

SpecSilence ==
    /\ Init /\ [][NextSilence]_vars
    /\ \A b \in SilentBlocks : WF_vars(ProcessMix(b, FALSE))

\* SpecOrder: process_mix between the other mixer calls, with a playing and
\* looping transport and channels muted and unmuted
OrderWrites ==
    {<<idx_play_state, 1>>, <<idx_loop_enabled, 1>>, <<idx_loop_end, 1>>}

OrderBlocks ==
    {[block_size |-> 1, input |-> <<0, 0, 6000, 6000>>],
     [block_size |-> 2, input |-> <<5000, 4000, 0, 0, 0, 0, 0, 0>>]}

NextOrder ==
    \/ SetSharedStateBuffer(TRUE)
    \/ \E w \in OrderWrites : ControlWrite(w[1], w[2])
    \/ \E c \in ChanIdx : SetChannelParams(c, 1, 0, TRUE, FALSE, FALSE, FALSE)
    \/ GetChannelLevels(2 * NumChannels)
    \/ Reset
    \/ \E b \in OrderBlocks : nblocks < MaxMixBlocks /\ SyncState(b)
    \/ MixAdvance

SpecOrder == Init /\ [][NextOrder]_vars

(***************************************************************************)
(* Steps of process_mix, as seen in a transition                           *)
(***************************************************************************)
\* sync_state ran against an attached shared block
SyncStep == pc = "idle" /\ pc' = "synced" /\ attached

\* the rest of process_mix ran, the transport advance included
MixStep == pc = "synced" /\ pc' = "idle"

\* this sync_state applies a seek
SeekRequested == sab[idx_seek_trigger] = 1 /\ sab[idx_seek_target] >= 0

\* a loud probe block for the scratch window
Loud == [s \in 0..(ScratchWindow - 1) |-> 9000]

\* block b with every sample of channel c replaced by a loud one
Drown(b, c) ==
    [b EXCEPT !.input =
        [k \in DOMAIN b.input |->
            IF \E s \in 0..(b.block_size - 1) :
                   k - 1 \in {InIdx(s, c), InIdx(s, c) + 1}
            THEN 9000 ELSE b.input[k]]]

\* the samples of channel c in block b, de-interleaved
Deint(b, c, side) ==
    [s \in 0..(ScratchWindow - 1) |->
        IF Covered(b, s, c) THEN InAt(b, InIdx(s, c) + side) ELSE 0]

\* the processed block of channel c for block b, left (side 0) or right (1)
Processed(c, b, side) ==
    LET r == process_block(channels[c], Deint(b, c, 0), Deint(b, c, 1),
                           b.block_size, SampleRate)
    IN  IF side = 0 THEN r.ol ELSE r.or

\* the sum over the channels in cs of their processed blocks
RECURSIVE SumProcessed(_, _, _)
SumProcessed(cs, b, side) ==
    IF cs = {} THEN Zeros(b.block_size)
    ELSE LET c == CHOOSE x \in cs : TRUE
         IN  BlockAdd(Processed(c, b, side),
                      SumProcessed(cs \ {c}, b, side), b.block_size)

(***************************************************************************)
(* C1: a muted channel's process_block output is all zeros whatever the    *)
(* input, gain, pan, EQ and compressor flags and insert list, and          *)
(* process_mix adds nothing of a muted channel to the master output: the   *)
(* channel is not summed, and the master output is the same when the       *)
(* channel's input is replaced by another one.                             *)
(***************************************************************************)
C1_MuteSilences ==
    [][MixStep =>
        \A c \in ChanIdx :
            channels[c].mute =>
              /\ LET r == process_block(channels[c], Loud, Loud,
                                        blk.block_size, SampleRate)
                 IN  /\ r.ol = Zeros(blk.block_size)
                     /\ r.or = Zeros(blk.block_size)
              /\ c \notin last'.summed
              /\ LET alt == MixDown(channels, in_l, in_r, Drown(blk, c),
                                    SampleRate)
                 IN  out_l' = alt.out_l /\ out_r' = alt.out_r]_vars

\* a block was mixed in which the muted channel 0 (gain 2, panned, EQ and
\* compressor enabled, one insert) carried signal and channel 1 was summed
C1_Witness ==
    /\ last.op = "mix"
    /\ 0 \in last.heard
    /\ channels[0].mute /\ channels[0].gain = 2 /\ channels[0].pan = 1
    /\ channels[0].eq_active /\ channels[0].comp_active
    /\ Len(channels[0].inserts) > 0
    /\ last.summed = {1}
    /\ \E s \in DOMAIN out_l : out_l[s] # 0

(***************************************************************************)
(* C2: with a solo set on some channel, no non-solo channel is summed into *)
(* the master output; with no solo set, the master output is the sum of    *)
(* the processed blocks of all unmuted channels.                           *)
(***************************************************************************)
C2_SoloLogic ==
    [][MixStep =>
        IF AnySolo(channels)
        THEN \A c \in last'.summed : channels[c].solo
        ELSE LET unmuted == {c \in ChanIdx : ~channels[c].mute}
             IN  /\ out_l' = SumProcessed(unmuted, blk, 0)
                 /\ out_r' = SumProcessed(unmuted, blk, 1)]_vars

(***************************************************************************)
(* C3: a sync_state that reads seek trigger 1 and a target t >= 0 leaves   *)
(* the transport at trunc(t * samples_per_tick) and the trigger at 0; a    *)
(* sync_state that reads a trigger other than 1 moves the position only by *)
(* a stop (to 0) and flushes nothing, so a request is applied once.        *)
(***************************************************************************)
C3_SeekAppliedOnce ==
    [][SyncStep =>
        /\ SeekRequested =>
             /\ transport'.current_sample =
                  (F32Round(sab[idx_seek_target] * transport'.samples_per_tick)
                      \div TickScale)
             /\ sab'[idx_seek_trigger] = 0
        /\ sab[idx_seek_trigger] # 1 =>
             /\ transport'.current_sample \in {transport.current_sample, 0}
             /\ channels' = channels
             /\ sab'[idx_seek_trigger] = sab[idx_seek_trigger]]_vars

\* a seek to 1/64 tick was applied at 120 bpm: 3.90625 samples, truncated to 3
C3_Witness ==
    /\ pc = "synced" /\ last.op = "sync" /\ last.seek
    /\ last.trig = 1 /\ last.target = 1
    /\ transport.samples_per_tick = 250
    /\ transport.current_sample = 3
    /\ sab[idx_seek_trigger] = 0

\* the strip holds no DSP state: zero EQ histories, compressor gain 1 and
\* inserts as constructed
Flushed(ch) ==
    /\ \A k \in 1..12 : EQ_history(ch.eq_l)[k] = 0 /\ EQ_history(ch.eq_r)[k] = 0
    /\ ch.comp_gain = GainScale
    /\ \A k \in 1..Len(ch.inserts) : ch.inserts[k] = SimpleDelay_new(SampleRate)

(***************************************************************************)
(* C4: a sync_state that applies a seek leaves every channel with zero EQ  *)
(* histories, the compressor's smoothed gain at 1 and every insert in its  *)
(* initial state; and the output of the block that follows the seek is     *)
(* made of that block's input alone: it is the output the same strips give *)
(* for that input over zeroed scratch buffers.                             *)
(***************************************************************************)
C4_SeekFlushes ==
    [][/\ SyncStep /\ SeekRequested => \A c \in ChanIdx : Flushed(channels'[c])
       /\ MixStep /\ last.seek =>
            LET fresh == MixDown(channels, Zeros(ScratchWindow),
                                 Zeros(ScratchWindow), blk, SampleRate)
            IN  out_l' = fresh.out_l /\ out_r' = fresh.out_r]_vars

(***************************************************************************)
(* C5: after a sync_state that read play-state 0 and applied no seek the   *)
(* transport is not playing and at position 0, whether it was Playing or   *)
(* Paused before.                                                          *)
(***************************************************************************)
C5_StopResetsPosition ==
    (/\ pc = "synced" /\ last.op = "sync"
     /\ last.ps = 0 /\ ~last.seek
     /\ last.was \in {"Playing", "Paused"})
        => (~transport.is_playing /\ transport.current_sample = 0)

(***************************************************************************)
(* C6 (as claimed): after a sync_state float 17 holds the transport's      *)
(* sample position and float 18 its position in ticks, the quotient        *)
(* current_sample / samples_per_tick.                                      *)
(***************************************************************************)
C6_WriteBackExact ==
    (pc = "synced" /\ last.op = "sync")
        => /\ sab[idx_position_samples] = transport.current_sample
           /\ LET f == sab[idx_position_ticks]
                  q == Ratio(transport.current_sample,
                             transport.samples_per_tick)
              IN  /\ f.exp <= 0
                  /\ q.num = f.mant
                  /\ Log2Floor(q.den) = -f.exp
                  /\ q.den = Pow2(Log2Floor(q.den))

(***************************************************************************)
(* C6 (amended): after a sync_state float 17 holds the transport's sample  *)
(* position rounded to f32 (the position itself below 2^24) and float 18   *)
(* the quotient current_sample / samples_per_tick rounded to f32, both     *)
(* taken from the transport as the sync's play-state, tempo and seek       *)
(* commands left it.                                                       *)
(***************************************************************************)
C6_WriteBackF32 ==
    (pc = "synced" /\ last.op = "sync")
        => /\ sab[idx_position_samples] = F32Round(transport.current_sample)
           /\ (transport.current_sample < Pow2(F32Bits)
                 => sab[idx_position_samples] = transport.current_sample)
           /\ sab[idx_position_ticks] =
                F32Quot(transport.current_sample, transport.samples_per_tick)

\* a sync that applied a tempo change and a seek, and wrote the result back
C6_Witness ==
    /\ pc = "synced" /\ last.op = "sync" /\ last.seek
    /\ transport.bpm = 240 * BpmScale
    /\ transport.current_sample = 1
    /\ sab[idx_position_samples] = 1
    /\ sab[idx_position_ticks] = [mant |-> 8589935, exp |-> -30]

(***************************************************************************)
(* C7: with looping enabled and loop_end_sample > loop_start_sample, an    *)
(* advance while playing that reaches or passes loop_end_sample ends at    *)
(* loop_start_sample + ((position - loop_end_sample) mod loop_len), inside *)
(* [loop_start_sample, loop_end_sample); from below loop_end_sample the    *)
(* position stays below it.                                                *)
(***************************************************************************)
C7_LoopWrap ==
    [][(/\ MixStep
        /\ transport.is_playing
        /\ transport.loop_enabled
        /\ LoopEndSample(transport) > LoopStartSample(transport))
       => LET pos == transport.current_sample + blk.block_size
              le == LoopEndSample(transport)
              ls == LoopStartSample(transport)
          IN  /\ pos >= le =>
                   /\ transport'.current_sample = ls + ((pos - le) % (le - ls))
                   /\ ls <= transport'.current_sample
                   /\ transport'.current_sample < le
              /\ transport.current_sample < le
                   => transport'.current_sample < le]_vars

\* an advance crossed the loop end from below and was wrapped
C7_Witness ==
    /\ last.op = "mix"
    /\ transport.is_playing /\ transport.loop_enabled
    /\ LoopEndSample(transport) > LoopStartSample(transport)
    /\ last.arg < LoopEndSample(transport)
    /\ last.arg + last.n > LoopEndSample(transport)
    /\ transport.current_sample = LoopStartSample(transport) + 1
    /\ LoopStartSample(transport) > 0

(***************************************************************************)
(* C8: advance(n) adds n to current_sample while playing (before any loop  *)
(* wrap) and changes nothing of the transport while not playing.           *)
(***************************************************************************)
C8_AdvanceOnlyWhilePlaying ==
    [][MixStep =>
        IF transport.is_playing
        THEN /\ \/ transport'.current_sample
                     = transport.current_sample + blk.block_size
                \/ /\ transport.loop_enabled
                   /\ transport.current_sample + blk.block_size
                        >= LoopEndSample(transport)
                   /\ transport'.current_sample
                        < transport.current_sample + blk.block_size
             /\ [transport' EXCEPT !.current_sample = 0]
                  = [transport EXCEPT !.current_sample = 0]
        ELSE transport' = transport]_vars

\* a paused transport away from 0 went through an advance of 2 samples
C8_Witness ==
    /\ last.op = "mix" /\ last.n = 2
    /\ ~transport.is_playing
    /\ transport.current_sample > 0
    /\ transport.current_sample = last.arg

\* a configuration call named op was made in this step
ApiStep(op) ==
    pc = "idle" /\ pc' = "idle" /\ sab' = sab /\ last'.op = op

(***************************************************************************)
(* C9: add_effect(idx, type) returns an error and changes no channel when  *)
(* idx is not below the channel count or type is not the known effect type *)
(* 0; otherwise it returns Ok, channel idx's insert list is the old list   *)
(* with one new effect appended, and nothing else of any channel changes.  *)
(***************************************************************************)
C9_AddEffectFraming ==
    [][ApiStep("add_effect") =>
        LET idx == last'.idx
        IN  IF idx >= NumChannels \/ last'.arg # 0
            THEN ret' = "err" /\ channels' = channels
            ELSE /\ ret' = "ok"
                 /\ \E e \in {SimpleDelay_new(SampleRate)} :
                       channels'[idx].inserts = Append(channels[idx].inserts, e)
                 /\ channels =
                      [channels' EXCEPT ![idx].inserts = channels[idx].inserts]
       ]_vars

\* add_effect has just succeeded a second time on channel 1 while channel 0
\* holds one insert
C9_Witness ==
    /\ last.op = "add_effect" /\ last.idx = 1 /\ last.arg = 0 /\ ret = "ok"
    /\ Len(channels[1].inserts) = 2
    /\ Len(channels[0].inserts) = 1

SetterOps ==
    {"set_channel_params", "set_channel_eq", "set_channel_compression"}

(***************************************************************************)
(* C10: set_channel_params, set_channel_eq and set_channel_compression     *)
(* called with a channel index not below the channel count return a        *)
(* failure value and leave every channel unchanged.                        *)
(***************************************************************************)
C10_SettersReportBadIndex ==
    [][(\E op \in SetterOps : ApiStep(op)) /\ last'.idx >= NumChannels =>
          ret' = "err" /\ channels' = channels]_vars

(***************************************************************************)
(* C11: the peaks get_channel_levels reports for a channel are the largest *)
(* output magnitudes (left, right) of that channel over all the blocks     *)
(* processed since the previous get_channel_levels, 0 if it gave no output.*)
(***************************************************************************)
C11_PeakSinceLastRead ==
    [][ApiStep("get_channel_levels") =>
        \A i \in ChanIdx :
            i * 2 + 1 < last'.n =>
                /\ levels'[i * 2] = peak_acc[i].l
                /\ levels'[i * 2 + 1] = peak_acc[i].r]_vars

(***************************************************************************)
(* C12: get_channel_levels(buf, len) writes the peaks of every channel i   *)
(* with 2i+1 < len to buf[2i], buf[2i+1] and zeroes those peaks, so that a *)
(* second call right after it reports 0 for them; a channel with           *)
(* 2i+1 >= len keeps its peaks and is not reported; no other element of    *)
(* the buffer and nothing else of any channel changes.                     *)
(***************************************************************************)
C12_ConsumeOnRead ==
    [][ApiStep("get_channel_levels") =>
        LET len == last'.n
            told(i) == i * 2 + 1 < len
        IN  /\ \A i \in ChanIdx :
                 IF told(i)
                 THEN /\ levels'[i * 2] = channels[i].peak_l
                      /\ levels'[i * 2 + 1] = channels[i].peak_r
                      /\ channels'[i] =
                           [channels[i] EXCEPT !.peak_l = 0, !.peak_r = 0]
                      /\ last.op = "get_channel_levels" /\ i * 2 + 1 < last.n
                           => levels'[i * 2] = 0 /\ levels'[i * 2 + 1] = 0
                 ELSE channels'[i] = channels[i]
            /\ \A k \in DOMAIN levels :
                 (k >= len \/ ~told(k \div 2)) => levels'[k] = levels[k]
            /\ DOMAIN levels' = DOMAIN levels]_vars

\* a read of length 3 has reported and cleared channel 0 and left channel 1's
\* peaks and the rest of the buffer alone
C12_Witness ==
    /\ last.op = "get_channel_levels" /\ last.n = 3
    /\ levels[0] > 0 /\ levels[1] > 0
    /\ levels[2] = Untouched /\ levels[3] = Untouched /\ levels[4] = Untouched
    /\ channels[0].peak_l = 0 /\ channels[0].peak_r = 0
    /\ channels[1].peak_l > 0

(***************************************************************************)
(* C13: the steps of process_mix change no field of the shared block but   *)
(* the seek trigger (index 2: from 1 to 0 only), float 17 and float 18;    *)
(* play state, message counter, bpm, sample rate, seek target and the loop *)
(* fields are left as the control thread wrote them.                       *)
(***************************************************************************)
C13_AudioWriteSet ==
    [][pc' # pc =>
        \A i \in SabIndices :
            \/ i \in {idx_position_samples, idx_position_ticks}
            \/ sab'[i] = sab[i]
            \/ /\ i = idx_seek_trigger
               /\ sab[i] = 1
               /\ sab'[i] = 0]_vars

\* a sync has consumed a seek and written the position back while the
\* command fields hold what the control thread stored
C13_Witness ==
    /\ pc = "synced" /\ last.op = "sync" /\ last.trig = 1
    /\ sab[idx_seek_trigger] = 0
    /\ sab[idx_play_state] = 1
    /\ sab[idx_bpm] = 240 * BpmScale
    /\ sab[idx_seek_target] = 67109 * TickScale
    /\ sab[idx_position_samples] > 0
    /\ sab[idx_position_ticks].mant > 0

\* the loop triple the transport holds
LoopOf(t) == <<t.loop_enabled, t.loop_start_tick, t.loop_end_tick>>

(***************************************************************************)
(* C14: a store to the shared block that lands inside a block, after       *)
(* sync_state, changes nothing the block in progress uses: the rest of the *)
(* block mixes and advances from the transport and channels as sync_state  *)
(* left them.  The next sync_state applies what the block then holds:      *)
(* play state 1 leaves the transport playing, 0 and 2 not playing, a       *)
(* positive bpm is the transport's tempo, the loop fields are its loop.    *)
(***************************************************************************)
C14_StaleByOneBlock ==
    [][/\ (pc = "synced" /\ pc' = "synced") =>
            /\ transport' = transport /\ channels' = channels
            /\ blk' = blk /\ in_l' = in_l /\ in_r' = in_r
       /\ MixStep =>
            /\ transport' = advance(transport, blk.block_size)
            /\ LET m == MixDown(channels, in_l, in_r, blk, SampleRate)
               IN  out_l' = m.out_l /\ out_r' = m.out_r
                   /\ channels' = m.channels
       /\ SyncStep =>
            /\ sab[idx_play_state] = 1 => transport'.is_playing
            /\ sab[idx_play_state] \in {0, 2} => ~transport'.is_playing
            /\ sab[idx_bpm] > 0 =>
                  Abs(transport'.bpm - sab[idx_bpm]) <= BpmDeadBand
            /\ LoopOf(transport') = LoopRead(sab)]_vars

\* inside a block whose sync read play state 1: a pause, a tempo and a loop
\* have been stored since, and the transport still plays the old settings
C14_Witness ==
    /\ pc = "synced" /\ last.op = "sync" /\ last.ps = 1
    /\ transport.is_playing /\ sab[idx_play_state] = 2
    /\ transport.bpm = 120 * BpmScale /\ sab[idx_bpm] = 240 * BpmScale
    /\ ~transport.loop_enabled /\ sab[idx_loop_enabled] = 1
    /\ sab[idx_loop_end] = 2

(***************************************************************************)
(* C15: no step of process_mix allocates memory, whatever the block size,  *)
(* the channels and the transport or loop state.                           *)
(***************************************************************************)
C15_NoAllocation ==
    last.op \in {"sync", "mix"} => last.alloc = {}

\* the outcome a read of the slot `offset` behind the cursor would give with
\* the offset reduced modulo the length
Behind(d, offset) == d.buffer[(d.index - offset) % BufLen(d)]

(***************************************************************************)
(* C16: for every d below the capacity, after write(v) and d further       *)
(* writes read_at(d) returns v; in particular read_at(0) right after       *)
(* write(v) returns v.                                                     *)
(***************************************************************************)
C16_ReadAtDelay ==
    \A d \in 0..(BufLen(dl) - 1) :
        Len(dl_hist) > d =>
            \A o \in read_at(dl, d) :
                o.kind = "value" /\ o.value = dl_hist[Len(dl_hist) - d]

(***************************************************************************)
(* C17: in every reachable state and for every whole delay k,              *)
(* read_interpolated(k) returns exactly what read_at(k) returns.           *)
(***************************************************************************)
C17_InterpolatedIsReadAt ==
    \A k \in ReadOffsets(dl) :
        \A o \in read_at(dl, k) :
            /\ o.kind = "value"
            /\ o.value = read_interpolated(dl, DelayGrid * k)

(***************************************************************************)
(* C18: read_at and read_interpolated never fail, whatever the offset or   *)
(* delay: an offset at or above the capacity, or above cursor + capacity,  *)
(* is reduced modulo the capacity, with no underflow.                      *)
(***************************************************************************)
C18_ReadsNeverFail ==
    /\ dl_ret.op \in {"read_at", "read_interpolated"} => dl_ret.kind = "value"
    /\ dl_ret.op = "read_at" => dl_ret.value = Behind(dl, dl_ret.arg)

(***************************************************************************)
(* C19: the capacity is the larger of the requested size and 16 and never  *)
(* changes afterwards; after every call the cursor is at least 0 and       *)
(* below the capacity.                                                     *)
(***************************************************************************)
C19_CursorInRange ==
    [][/\ dl_ret'.op = "new" =>
            BufLen(dl') = (IF dl_ret'.arg > 16 THEN dl_ret'.arg ELSE 16)
       /\ dl_ret'.op # "new" => BufLen(dl') = BufLen(dl)
       /\ dl'.index \in 0..(BufLen(dl') - 1)
       /\ DOMAIN dl'.buffer = 0..(BufLen(dl') - 1)]_vars

\* a line of 17 slots whose cursor has just wrapped to 0
C19_Witness ==
    /\ BufLen(dl) = 17 /\ Len(dl_hist) = 17 /\ dl.index = 0
    /\ dl_ret.op = "write"

\* the sample written capacity writes ago, 0 when fewer have been written
Oldest(d, hist) ==
    IF Len(hist) >= BufLen(d) THEN hist[Len(hist) - BufLen(d) + 1] ELSE 0

(***************************************************************************)
(* C20: read returns the sample in the cursor's slot, which is the sample  *)
(* written exactly capacity writes ago once that many have been written    *)
(* since construction or reset, and 0 before; read moves neither the       *)
(* cursor nor the buffer.                                                  *)
(***************************************************************************)
C20_ReadOldest ==
    [][dl_ret'.op = "read" =>
            /\ dl' = dl
            /\ dl_ret'.value = Oldest(dl, dl_hist)
            /\ dl_ret'.value = dl.buffer[dl.index]]_vars

\* a read after the 17 slots have been written over once
C20_Witness ==
    /\ dl_ret.op = "read" /\ BufLen(dl) = 17 /\ Len(dl_hist) = 18
    /\ dl_ret.value = dl_hist[2] /\ dl_ret.value # 0

\* the distance from 1 within which a relaxing gain comes to rest on the
\* gain grid: (1 - g) * 0.003 is below one grid step from there on
GainEps == 350

(***************************************************************************)
(* C21: with silent blocks fed to process_mix for ever, the compressor     *)
(* gain of every channel eventually comes within epsilon of 1 and stays    *)
(* there, whatever reduction it had before.                                *)
(***************************************************************************)
C21_GainRecovers ==
    <>[](\A c \in ChanIdx : channels[c].comp_gain >= GainScale - GainEps)

(***************************************************************************)
(* C22: a channel mixed at pan 0 has equal pan gains whose squares sum to  *)
(* 1 (both cos(pi/4)); the gains are in units of 1.0.                      *)
(***************************************************************************)
C22_CentrePanConstantPower ==
    \A c \in ChanIdx :
        (last.op = "mix" /\ c \in last.summed /\ channels[c].pan = 0) =>
            LET g == PanGains(channels[c].pan)
            IN  g.l = g.r /\ g.l * g.l + g.r * g.r = 1

(***************************************************************************)
(* C24: each lane of simd_gain_4 is the product of that lane's input and   *)
(* the gain, and each lane of simd_mix_4 is dry * (1 - w) + wet * w of     *)
(* that lane's two inputs, in the SIMD build and in the scalar one: no     *)
(* lane depends on another lane's input.                                   *)
(***************************************************************************)
C24_LanesAgree ==
    /\ simd.op = "simd_gain_4" =>
          \A i \in 1..4 : simd.out[i] = F32Round(simd.a[i] * simd.k)
    /\ simd.op = "simd_mix_4" =>
          \A i \in 1..4 :
              simd.out[i] = F32Round(F32Round(simd.a[i] * F32Round(1 - simd.k))
                                     + F32Round(simd.b[i] * simd.k))

\* a mix of arrays with different lanes, where a product is rounded
C24_Witness ==
    /\ simd.op = "simd_mix_4" /\ simd.k = -2
    /\ simd.a = <<4097, 2, -1, 4097>> /\ simd.b = <<-1, 2, 4097, 4097>>
    /\ simd.out = <<12293, 2, -8197, 4097>>

(***************************************************************************)
(* C25: every insert of an unmuted channel that is mixed is run on the     *)
(* block: SimpleDelay::process writes each sample of the block into its    *)
(* delay lines, so no insert of the channel is left as it was, and the     *)
(* channel's output is not the bare input.                                 *)
(***************************************************************************)
C25_InsertsApplied ==
    [][MixStep =>
        \A c \in last'.summed :
            \A k \in DOMAIN channels[c].inserts :
                /\ channels'[c].inserts[k] # channels[c].inserts[k]
                /\ (~channels[c].eq_active /\ ~channels[c].comp_active
                    /\ channels[c].gain = 1 /\ channels[c].pan = 0
                    /\ last'.summed = {c})
                   => \E i \in 0..(blk.block_size - 1) :
                          \/ out_l'[i] # Deint(blk, c, 0)[i]
                          \/ out_r'[i] # Deint(blk, c, 1)[i]]_vars

\* a strip without its meters: what its later output depends on
Sounding(ch) == [ch EXCEPT !.peak_l = 0, !.peak_r = 0]

(***************************************************************************)
(* C26: a channel that process_mix skips as silent would, run through its  *)
(* strip on that block, have added nothing to the master output and would  *)
(* be left in the state the skip leaves it in (meters aside), so that the  *)
(* output of this call and of all later ones is the same either way.       *)
(***************************************************************************)
C26_SkipIsOptimisation ==
    [][MixStep =>
        \A c \in ChanIdx :
            (Audible(channels[c], AnySolo(channels)) /\ SkipSilent(blk, c)) =>
                LET r == process_block(channels[c], Deint(blk, c, 0),
                                       Deint(blk, c, 1), blk.block_size,
                                       SampleRate)
                IN  /\ r.ol = Zeros(blk.block_size)
                    /\ r.or = Zeros(blk.block_size)
                    /\ Sounding(r.ch) = Sounding(channels'[c])]_vars

(***************************************************************************)
(* C27: process_mix runs sync_state first, with the outputs and the        *)
(* position of the block still untouched, then zeroes the outputs, mixes   *)
(* and advances the transport, without touching the shared block again.    *)
(* A block to which no channel contributes comes out all zeros; a playing  *)
(* transport that does not wrap moves by exactly block_size.  Whenever the *)
(* shared block changes outside sync_state, nothing of the mixer changed   *)
(* in that step: it was a store of the control thread.                     *)
(***************************************************************************)
C27_BlockOrder ==
    [][/\ (pc = "idle" /\ pc' = "synced") =>
            /\ out_l' = out_l /\ out_r' = out_r /\ in_l' = in_l /\ in_r' = in_r
            /\ LET m == sync_state([transport |-> transport, tstate |-> tstate,
                                    sab |-> sab, channels |-> channels,
                                    seek |-> FALSE])
               IN  IF attached
                   THEN transport' = m.transport /\ sab' = m.sab
                   ELSE transport' = transport /\ sab' = sab
       /\ MixStep =>
            /\ sab' = sab
            /\ transport' = advance(transport, blk.block_size)
            /\ DOMAIN out_l' = 0..(blk.block_size - 1)
            /\ DOMAIN out_r' = 0..(blk.block_size - 1)
            /\ last'.summed = {} =>
                  \A i \in 0..(blk.block_size - 1) :
                      out_l'[i] = 0 /\ out_r'[i] = 0
            /\ (transport.is_playing /\ ~LoopWraps(transport, blk.block_size)) =>
                  transport'.current_sample =
                      transport.current_sample + blk.block_size
       /\ sab' # sab =>
            \/ pc = "idle" /\ pc' = "synced"
            \/ UNCHANGED mixvars_but_sab]_vars

\* a playing transport has moved by the block, whose two channels carried
\* signal and were both muted: the outputs are zero over a scratch that is not
C27_Witness ==
    /\ last.op = "mix" /\ last.summed = {} /\ last.heard # {}
    /\ attached /\ transport.is_playing
    /\ transport.current_sample = last.arg + last.n
    /\ \E i \in DOMAIN out_l : in_l[i] # 0
    /\ \A i \in DOMAIN out_l : out_l[i] = 0 /\ out_r[i] = 0

\* the mixer as sync_state finds it
Synced == [transport |-> transport, tstate |-> tstate, sab |-> sab,
           channels |-> channels, seek |-> FALSE]

(***************************************************************************)
(* C28: a sync_state that reads play state 1 leaves the transport playing, *)
(* one that reads 2 leaves it not playing, and in both the play-state      *)
(* handling keeps the sample position (so does the whole sync_state when   *)
(* no seek is requested); a play state other than 0, 1 and 2 changes       *)
(* neither the playing flag nor the position.                              *)
(***************************************************************************)
C28_PlayPauseKeepPosition ==
    [][SyncStep =>
        LET ps == sab[idx_play_state]
            handled == SyncPlayState(Synced).transport
        IN  /\ ps = 1 => transport'.is_playing
            /\ ps = 2 => ~transport'.is_playing
            /\ ps \notin {0, 1, 2} =>
                  transport'.is_playing = transport.is_playing
            /\ ps # 0 =>
                  /\ handled.current_sample = transport.current_sample
                  /\ ~SeekRequested =>
                        transport'.current_sample = transport.current_sample]_vars

\* a paused transport away from 0 has been set playing again where it was
C28_Witness ==
    /\ last.op = "sync" /\ last.ps = 1 /\ last.was = "Paused" /\ last.trig = 0
    /\ transport.is_playing /\ transport.current_sample > 0

(***************************************************************************)
(* C29: sync_state changes the transport's tempo exactly when the bpm in   *)
(* float 16 is positive and more than 0.001 away from the tempo in force;  *)
(* a bpm of 0 or less is ignored.  A change takes the bpm read, recomputes *)
(* samples_per_beat and samples_per_tick from it, and the tempo handling   *)
(* keeps the sample position, the playing flag and the loop settings.      *)
(***************************************************************************)
C29_TempoDeadBand ==
    [][SyncStep =>
        LET bpm == sab[idx_bpm]
            due == bpm > 0 /\ Abs(bpm - transport.bpm) > BpmDeadBand
            handled == SyncBpm(Synced).transport
        IN  /\ (transport'.bpm # transport.bpm) <=> due
            /\ due =>
                  /\ transport'.bpm = bpm
                  /\ bpm % BpmScale = 0 =>
                        transport'.samples_per_beat * (bpm \div BpmScale)
                           = SampleRate * 60
                  /\ transport'.samples_per_tick * Ppq
                        = transport'.samples_per_beat
                  /\ transport'.samples_per_beat # transport.samples_per_beat
            /\ ~due =>
                  /\ transport'.samples_per_beat = transport.samples_per_beat
                  /\ transport'.samples_per_tick = transport.samples_per_tick
            /\ handled.current_sample = transport.current_sample
            /\ handled.is_playing = transport.is_playing
            /\ LoopOf(handled) = LoopOf(transport)]_vars

\* the tempo was changed to 240 on a playing, looping transport away from 0,
\* and a sync has since left a bpm half a dead band above it unapplied
C29_Witness ==
    /\ pc = "synced" /\ last.op = "sync"
    /\ transport.bpm = 240 * BpmScale /\ transport.samples_per_tick = 125
    /\ sab[idx_bpm] = transport.bpm + 1
    /\ transport.is_playing /\ transport.current_sample > 0
    /\ transport.loop_enabled

\* the loop of t is enabled and has no extent: its end is not after its
\* start in ticks, or both fall on one sample
EmptyLoop(t) ==
    /\ t.loop_enabled
    /\ \/ t.loop_end_tick <= t.loop_start_tick
       \/ LoopEndSample(t) = LoopStartSample(t)

(***************************************************************************)
(* C30: with looping enabled over a loop whose end tick is not after its   *)
(* start tick, or whose two ends fall on the same sample, advance(n) does  *)
(* not wrap and does not fail: the transport it leaves is the one          *)
(* advance(n) leaves with looping disabled, a playing transport n samples  *)
(* on.                                                                     *)
(***************************************************************************)
C30_EmptyLoopNeverWraps ==
    [][(MixStep /\ EmptyLoop(transport)) =>
        LET n == blk.block_size
            unlooped == advance([transport EXCEPT !.loop_enabled = FALSE], n)
        IN  /\ ~LoopWraps(transport, n)
            /\ ~LoopLenUnderflows(transport, n)
            /\ transport'.current_sample = unlooped.current_sample
            /\ transport' = [unlooped EXCEPT !.loop_enabled = TRUE]
            /\ transport.is_playing =>
                  transport'.current_sample = transport.current_sample + n]_vars

\* a playing transport has advanced past both ends of an enabled loop from
\* -1/64 tick to tick 0, which both fall on sample 0
C30_Witness ==
    /\ pc = "idle" /\ last.op = "mix"
    /\ transport.is_playing /\ transport.loop_enabled
    /\ transport.loop_start_tick = -1 /\ transport.loop_end_tick = 0
    /\ LoopEndSample(transport) = 0 /\ LoopStartSample(transport) = 0
    /\ transport.current_sample >= 2

\* the largest magnitude on either channel of the slice last put out
ReverbPeak ==
    LET mags == {Abs(reverb.output_l[i]) : i \in DOMAIN reverb.output_l}
                \cup {Abs(reverb.output_r[i]) : i \in DOMAIN reverb.output_r}
    IN  IF mags = {} THEN 0 ELSE CHOOSE m \in mags : \A n \in mags : n <= m

ReverbCeiling == 2 * UnitSample

(***************************************************************************)
(* C23: the reverb fed a unit impulse and then silence for 10 seconds of   *)
(* samples, the decay at its largest, puts out no non-finite sample on     *)
(* either channel: every output sample stays within ReverbCeiling, twice   *)
(* the impulse, at every decay of the menu.                                *)
(***************************************************************************)
C23_ReverbStaysFinite ==
    reverb.made =>
        /\ reverb.fed <= ReverbSamples
        /\ ReverbPeak <= ReverbCeiling
        /\ \A i \in DOMAIN reverb.output_l : is_finite(reverb.output_l[i])
        /\ \A i \in DOMAIN reverb.output_r : is_finite(reverb.output_r[i])

\* 10 seconds in at the largest decay, with damping and modulation on: the
\* tail still sounds
C23_Witness ==
    /\ reverb.made /\ reverb.fed + ReverbSliceLen > ReverbSamples
    /\ reverb.settings.decay = MaxDecay /\ reverb.settings.damping = 111
    /\ reverb.settings.mod_depth = 1 /\ reverb.settings.size = 1
    /\ ReverbPeak > 0

(***************************************************************************)
(* C31: in every state a Transport reaches through new, set_bpm,           *)
(* set_sample_rate and assignments to its public fields bpm, sample_rate   *)
(* and ppq, samples_per_beat is sample_rate * 60 / bpm and                 *)
(* samples_per_tick is samples_per_beat / ppq.                             *)
(***************************************************************************)
C31_TimingFollowsFields ==
    /\ transport.samples_per_beat = recalculate_timing(transport).samples_per_beat
    /\ transport.samples_per_tick = transport.samples_per_beat \div transport.ppq

\* C31, second half: set_bpm and set_sample_rate with an argument that is
\* not positive change nothing
C31_NonPositiveIgnored ==
    [][(last'.op \in {"set_bpm", "set_sample_rate"} /\ last'.arg <= 0)
          => transport' = transport]_vars

C31_NonPositiveWitness ==
    last.op \in {"set_bpm", "set_sample_rate"} /\ last.arg <= 0

(***************************************************************************)
(* C32: after any sequence of process and process_modulated calls, with    *)
(* inputs, feedback, damping and modulated delay finite or not, every      *)
(* value in the comb's delay buffer is finite: a feedback sum that is not  *)
(* finite is written as 0.                                                 *)
(***************************************************************************)
C32_CombBufferFinite ==
    /\ \A i \in DOMAIN comb.c.delay.buffer : is_finite(comb.c.delay.buffer[i])
    /\ (comb.calls > 0 /\ ~is_finite(comb.new_input))
          => comb.c.delay.buffer[comb.c.delay.index - 1] = 0

\* a modulated call that read back a sample written before it and formed a
\* feedback sum that is not finite
C32_Witness ==
    /\ comb.op = "process_modulated"
    /\ comb.calls = MaxCombCalls
    /\ is_finite(comb.out) /\ comb.out # 0
    /\ is_finite(comb.c.filter_state2)
    /\ comb.new_input = Inf

(***************************************************************************)
(* C33: setting coefficients changes only the five coefficients of a       *)
(* biquad and leaves x1, x2, y1, y2 alone, so set_channel_eq never clears  *)
(* the EQ history of any channel; reset zeroes the four history values of  *)
(* every biquad and leaves the coefficients alone.                         *)
(***************************************************************************)
EqHistories(chs) == [c \in ChanIdx |-> <<EQ_history(chs[c].eq_l), EQ_history(chs[c].eq_r)>>]

EqCoefficients(chs) ==
    [c \in ChanIdx |-> <<EQ_coefficients(chs[c].eq_l), EQ_coefficients(chs[c].eq_r)>>]

C33_CoefficientsAndHistoryApart ==
    [][/\ last'.op = "set_channel_eq"
            => EqHistories(channels') = EqHistories(channels)
       /\ last'.op = "reset"
            => /\ EqCoefficients(channels') = EqCoefficients(channels)
               /\ \A c \in ChanIdx, k \in 1..12 :
                     /\ EQ_history(channels'[c].eq_l)[k] = 0
                     /\ EQ_history(channels'[c].eq_r)[k] = 0]_vars

\* an EQ setting that changed the coefficients of a strip whose biquads
\* hold the samples of an earlier block
C33_Witness ==
    /\ last.op = "set_channel_eq"
    /\ channels[last.idx].eq_l.low.b0 # BiquadFilter_new.b0
    /\ channels[last.idx].eq_l.low.x1 # 0
    /\ channels[last.idx].eq_l.high.y2 # 0
    /\ nblocks = MaxMixBlocks

(***************************************************************************)
(* C34: no seek request is lost: once the control thread has stored a      *)
(* target and then set the trigger, at any point relative to sync_state,   *)
(* some sync_state eventually applies that target.                         *)
(***************************************************************************)
SeekOutstanding == attached /\ ctl.requested /\ ~ctl.applied

\* (a request the control thread overwrites with its next one is let off)
C34_SeekEventuallyApplied == SeekOutstanding ~> (ctl.applied \/ ~ctl.requested)

\* C34 as a state property: a request that is outstanding while the audio
\* thread is outside sync_state still has its trigger set
C34_OutstandingKeepsTrigger ==
    (SeekOutstanding /\ audio.pc = "idle") => sab[idx_seek_trigger] = 1

(***************************************************************************)
(* C35: the loop configuration sync_state passes to set_loop is always a   *)
(* triple the control thread wrote as one update, never a mixture of an    *)
(* old and a new one.                                                      *)
(***************************************************************************)
C35_LoopTripleWhole == LoopOf(transport) \in ctl.loops

(***************************************************************************)
(* C36 (as claimed): when a process_mix call returns while playing, with   *)
(* no seek in that call and no loop wrap, the position read back from the  *)
(* shared block is exactly block_size samples behind the transport.        *)
(***************************************************************************)
C36_ReadBackExactlyBehind ==
    (last.op = "mix" /\ attached /\ transport.is_playing /\ ~last.seek)
        => sab[idx_position_samples] = transport.current_sample - last.n

(***************************************************************************)
(* C36 (amended): the position fields a process_mix call leaves in the     *)
(* shared block are the f32 roundings of the transport position and tick   *)
(* from before that call's advance, the transport itself being block_size  *)
(* samples further while playing; the fields change in sync_state only,    *)
(* so the advance of a call shows in the block during the next call.       *)
(***************************************************************************)
C36_ReadBackBeforeAdvance ==
    [][/\ (last'.op = "mix" /\ attached')
            => /\ sab'[idx_position_samples] = F32Round(last'.arg)
               /\ sab'[idx_position_ticks] =
                    TickAsF32([transport' EXCEPT !.current_sample = last'.arg])
               /\ transport'.is_playing
                    => transport'.current_sample = last'.arg + last'.n
       /\ (\/ sab'[idx_position_samples] # sab[idx_position_samples]
           \/ sab'[idx_position_ticks] # sab[idx_position_ticks])
            => last'.op = "sync"]_vars

\* a call without a seek returned while playing above 2^24 samples, where
\* the read-back position is not the position the call started from
C36_Witness ==
    /\ last.op = "mix" /\ attached /\ transport.is_playing /\ ~last.seek
    /\ last.arg > Pow2(F32Bits)
    /\ transport.current_sample = last.arg + last.n
    /\ sab[idx_position_samples] # last.arg
    /\ sab[idx_position_samples] = F32Round(last.arg)

(***************************************************************************)
(* C37: the block a channel's strip processes is made of that channel's    *)
(* own entries of the current interleaved input and of nothing else: the   *)
(* strip ends the call as it would with every other channel's entries      *)
(* silent and the de-interleave scratch zeroed, also when the input is too *)
(* short to hold all of the channel's frames.                              *)
(***************************************************************************)
OwnIndices(b, c) ==
    UNION {{InIdx(s, c), InIdx(s, c) + 1} : s \in 0..(b.block_size - 1)}

\* the block with the entries of every channel but c silent
OwnInput(b, c) ==
    [b EXCEPT !.input = [i \in 1..Len(b.input) |->
                            IF (i - 1) \in OwnIndices(b, c) THEN b.input[i] ELSE 0]]

C37_OwnIndicesOnly ==
    [][MixStep =>
         \A c \in last'.summed :
            channels'[c] =
               MixDown(channels, Zeros(ScratchWindow), Zeros(ScratchWindow),
                       OwnInput(blk, c), SampleRate).channels[c]]_vars

(***************************************************************************)
(* C38: while no shared block is attached, sync_state changes nothing and  *)
(* the transport stays not playing at position 0 through every             *)
(* process_mix, parameter, add_effect, reset and get_channel_levels call.  *)
(***************************************************************************)
C38_DetachedTransportRests ==
    [][/\ ~attached' => (~transport'.is_playing /\ transport'.current_sample = 0)
       /\ (pc = "idle" /\ pc' = "synced" /\ ~attached)
            => UNCHANGED <<transport, tstate, sab, channels, LAST_LOOP_STATE>>]_vars

\* the last block of a detached mixer was mixed into the output while the
\* block asks for play and a seek, and the transport has not moved
C38_Witness ==
    /\ ~attached /\ last.op = "mix" /\ nblocks = MaxBlocks
    /\ last.summed # {}
    /\ \E s \in DOMAIN out_l : out_l[s] # 0
    /\ sab[idx_play_state] = 1 /\ sab[idx_seek_trigger] = 1
    /\ sab[idx_seek_target] = TickScale
    /\ channels[0].eq_l.low.b0 # BiquadFilter_new.b0
    /\ ~transport.is_playing /\ transport.current_sample = 0

(***************************************************************************)
(* C39: an envelope that is in Release is brought to Idle by repeated      *)
(* process calls unless a trigger comes first.                             *)
(***************************************************************************)
C39_ReleaseReachesIdle ==
    (env.adsr.phase = "Release") ~> (env.adsr.phase \in {"Idle", "Attack"})

\* C39, the parts about Idle: an idle envelope is left only by trigger,
\* release leaves it idle, and process gives it the value 0
C39_IdleUntilTrigger ==
    [][env.adsr.phase = "Idle"
         => /\ env'.adsr.phase # "Idle" => env'.op = "trigger"
            /\ env'.op = "process" => (env'.adsr.value = 0 /\ ~is_active(env'.adsr))]_vars

(***************************************************************************)
(* C40: with at least one voice, trigger_note triggers exactly one voice,  *)
(* the lowest-indexed inactive one or else voice 0, with the note's id,    *)
(* and changes no other voice; release_note(n) puts into Release exactly   *)
(* the active voices whose note_id is n and changes no other voice, so a   *)
(* voice that was stolen is not released with the note it was stolen from. *)
(***************************************************************************)
\* the voice trigger_note takes
Allocated(voices) ==
    IF FreeVoices(voices) # {} THEN FirstOf(FreeVoices(voices)) ELSE 0

C40_VoiceAllocation ==
    [][/\ (synth'.op = "trigger_note" /\ DOMAIN synth.ps.voices # {})
            => /\ synth'.ps.voices[Allocated(synth.ps.voices)].active
               /\ synth'.ps.voices[Allocated(synth.ps.voices)].note_id = synth'.note
               /\ synth'.ps.voices[Allocated(synth.ps.voices)].velocity
                    = synth'.velocity
               /\ synth'.ps.voices[Allocated(synth.ps.voices)].env.phase = "Attack"
               /\ \A i \in DOMAIN synth.ps.voices :
                     i # Allocated(synth.ps.voices)
                        => synth'.ps.voices[i] = synth.ps.voices[i]
       /\ synth'.op = "release_note"
            => \A i \in DOMAIN synth.ps.voices :
                  IF synth.ps.voices[i].active
                     /\ synth.ps.voices[i].note_id = synth'.note
                  THEN /\ synth'.ps.voices[i].env.phase = "Release"
                       /\ synth'.ps.voices[i].active
                       /\ synth'.ps.voices[i].note_id = synth'.note
                  ELSE synth'.ps.voices[i] = synth.ps.voices[i]]_vars

\* every voice was taken, voice 0 was stolen from a note, and a release of
\* that note has put the other voice into Release and left voice 0 alone
C40_Witness ==
    /\ synth.op = "release_note"
    /\ synth.note \in synth.stolen
    /\ Cardinality(DOMAIN synth.ps.voices) = MaxVoices
    /\ synth.ps.voices[0].active
    /\ synth.ps.voices[0].note_id # synth.note
    /\ synth.ps.voices[0].env.phase \in {"Attack", "Decay", "Sustain"}
    /\ synth.ps.voices[MaxVoices - 1].note_id = synth.note
    /\ synth.ps.voices[MaxVoices - 1].env.phase = "Release"

====
